---- MODULE Spec2Model ----
(***************************************************************************)
(* FAIR-Data-Center: catalog ingestion (management command load_metadata)  *)
(* and the observation query surface (views.query_observations,            *)
(* views.download_file, rest_views.observations_view).                     *)
(*                                                                         *)
(* Text that the code searches, splits, lower-cases or concatenates is a   *)
(* sequence of one-character strings; text that is only copied is a plain  *)
(* string.  A value that may be absent (Python None, an unbound SPARQL     *)
(* variable, a NULL column) is None == << >> or Some(v) == << v >>.        *)
(***************************************************************************)
EXTENDS Integers, Sequences, FiniteSets, TLC

VARIABLES
    db,        \* Metadata Store: one set of rows per model of models.py
    catalog,   \* the parsed catalog graph (rows the SPARQL queries bind)
    datadir,   \* the data directory: filename -> file
    now,       \* wall clock, in instants
    pc,        \* position of Command.handle
    opts,      \* options of the current (or last) run of the command
    idx,       \* index of the next dataset row in load_datasets
    runs,      \* number of runs of the command started so far
    prev,      \* pc at the moment the current run started
    db0,       \* the store at the moment the current run started
    req,       \* the last HTTP request served
    resp       \* its response

vars == <<db, catalog, datadir, now, pc, opts, idx, runs, prev, db0, req, resp>>

-----------------------------------------------------------------------------
(* Optional values *)
None == << >>
Some(v) == << v >>
Val(o) == o[1]

-----------------------------------------------------------------------------
(* Text *)
\* Python `sub in s`
Contains(sub, s) ==
    \E i \in 0..(Len(s) - Len(sub)) : SubSeq(s, i + 1, i + Len(sub)) = sub

\* Python s.endswith(suf)
EndsWith(s, suf) ==
    /\ Len(suf) <= Len(s)
    /\ SubSeq(s, Len(s) - Len(suf) + 1, Len(s)) = suf

UpperCase == <<"A","B","C","D","E","F","G","H","I","J","K","L","M",
               "N","O","P","Q","R","S","T","U","V","W","X","Y","Z">>
LowerCase == <<"a","b","c","d","e","f","g","h","i","j","k","l","m",
               "n","o","p","q","r","s","t","u","v","w","x","y","z">>

LowerChar(c) ==
    IF \E i \in 1..26 : UpperCase[i] = c
    THEN LowerCase[CHOOSE i \in 1..26 : UpperCase[i] = c]
    ELSE c

\* Python s.lower()
Lower(s) == [i \in 1..Len(s) |-> LowerChar(s[i])]

\* Python s.replace(tok, '') for a token of the text
Remove(s, tok) == SelectSeq(s, LAMBDA x : x # tok)

\* Python s.split(sep)[-1] for a one-character separator
SplitLast(s, sep) ==
    LET at == {i \in 1..Len(s) : s[i] = sep}
        last == IF at = {} THEN 0 ELSE CHOOSE i \in at : \A j \in at : j <= i
    IN SubSeq(s, last + 1, Len(s))

-----------------------------------------------------------------------------
(* The data directory: a flat directory of delimited text files.  A file   *)
(* is its byte size and, when it can be read as text, its lines; a line    *)
(* is the sequence of its comma-separated cells.                           *)

cpu_csv       == <<"c","p","u",".","c","s","v">>
linux_cpu_csv == <<"l","i","n","u","x","_","c","p","u",".","c","s","v">>
Linux_CPU_csv == <<"L","i","n","u","x","-","C","P","U",".","c","s","v">>
mem_csv       == <<"m","e","m",".","c","s","v">>
ipmi_csv      == <<"i","p","m","i",".","c","s","v">>
net_csv       == <<"n","e","t",".","c","s","v">>
dot_csv       == <<".","c","s","v">>

RECURSIVE SumLen(_)
SumLen(cells) == IF cells = << >> THEN 0 ELSE Len(Head(cells)) + 1 + SumLen(Tail(cells))

RECURSIVE Bytes(_)
\* st_size of a text file: every cell, a comma or a newline after each
Bytes(lines) == IF lines = << >> THEN 0 ELSE SumLen(Head(lines)) + Bytes(Tail(lines))

TextFile(lines) == [bytes |-> Bytes(lines), text |-> Some(lines)]
BinaryFile(n)   == [bytes |-> n, text |-> None]

col_host  == <<"h","o","s","t">>
col_value == <<"v","a","l","u","e">>
thin001   == <<"t","h","i","n","0","0","1",".","h","p","c">>
Thin002   == <<"T","H","I","N","0","0","2">>
area_rob  == <<"a","r","e","a","-","r","o","b">>

CpuHeader == <<col_host, col_value>>

\* the i-th data line of cpu.csv
CpuLine(i) ==
    CASE i % 4 = 1 -> <<thin001,  <<"1">> >>
      [] i % 4 = 2 -> <<Thin002,  <<"1","0">> >>
      [] i % 4 = 3 -> <<area_rob, <<"2","1">> >>
      [] OTHER     -> <<thin001,  <<"0","7">> >>

\* The longest data file of the directory has MaxDataLines lines after its header
MaxDataLines == 4

CpuLines == <<CpuHeader>> \o [i \in 1..MaxDataLines |-> CpuLine(i)]

DataDir ==
    (cpu_csv       :> TextFile(CpuLines))
 @@ (linux_cpu_csv :> TextFile(<< <<col_host, col_value>> >>))
 @@ (Linux_CPU_csv :> TextFile(<< <<col_host>>, <<thin001>> >>))
 @@ (mem_csv       :> TextFile(<< >>))
 @@ (ipmi_csv      :> BinaryFile(16))

\* pathlib.Path.exists / os.path.exists of a name inside the data directory
Exists(dir, name) == name \in DOMAIN dir

\* settings.DATASETS_PATH: the absolute path of the data directory, as the
\* sequence of its segments
DATASETS_PATH == << <<"s","r","v">>, <<"d","a","t","a">> >>

key_csv       == <<"k","e","y",".","c","s","v">>
up_key_csv    == <<".",".","/">> \o key_csv
etc_hosts_csv == <<"/","e","t","c","/","h",".","c","s","v">>

\* The files of the machine that are not in the data directory, by path
OutsideFiles ==
    (<< <<"s","r","v">>, key_csv >> :> TextFile(<< <<col_host>>, <<area_rob>> >>))
 @@ (<< <<"e","t","c">>, <<"h",".","c","s","v">> >>
        :> TextFile(<< <<col_host, col_value>>, <<thin001, <<"1">> >> >>))

\* The file system: the files of the data directory under DATASETS_PATH and
\* the other files, by absolute path
Disk(dir) ==
    [p \in {Append(DATASETS_PATH, n) : n \in DOMAIN dir} \cup DOMAIN OutsideFiles |->
        IF p \in DOMAIN OutsideFiles THEN OutsideFiles[p] ELSE dir[p[Len(p)]]]

RECURSIVE Segments(_)
\* The segments of a path text between its slashes
Segments(s) ==
    LET at == {i \in 1..Len(s) : s[i] = "/"}
        first == CHOOSE i \in at : \A j \in at : i <= j
    IN IF at = {} THEN <<s>>
       ELSE <<SubSeq(s, 1, first - 1)>> \o Segments(SubSeq(s, first + 1, Len(s)))

\* os.path.join(base, name): an absolute name discards the base
JoinPath(base, name) ==
    IF name # << >> /\ name[1] = "/" THEN Segments(name) ELSE base \o Segments(name)

RECURSIVE Resolve(_, _)
\* The path the operating system walks to: empty and `.` segments are
\* skipped, `..` steps to the parent (the root is its own parent)
Resolve(done, todo) ==
    IF todo = << >> THEN done
    ELSE IF Head(todo) = << >> \/ Head(todo) = <<".">> THEN Resolve(done, Tail(todo))
    ELSE IF Head(todo) = <<".", ".">>
         THEN Resolve(IF done = << >> THEN << >> ELSE SubSeq(done, 1, Len(done) - 1),
                      Tail(todo))
    ELSE Resolve(Append(done, Head(todo)), Tail(todo))

\* The directories of the file system: the proper prefixes of its file paths
IsDirectory(dir, path) ==
    \E p \in DOMAIN Disk(dir) : Len(path) < Len(p) /\ SubSeq(p, 1, Len(path)) = path

\* os.path.exists of an absolute path
PathExists(dir, path) == path \in DOMAIN Disk(dir) \/ IsDirectory(dir, path)

-----------------------------------------------------------------------------
(* The catalog: the nodes of the Turtle document, with the properties the  *)
(* SPARQL queries of load_metadata.py read.                                *)

Http == <<"http:", "/", "/">>
\* DCM = Namespace("http://areasciencepark.it/datacenter/ns#")
DCM == Http \o <<"areasciencepark.it", "/", "datacenter", "/", "ns", "#">>

CCLicenses == <<"https:", "/", "/", "creativecommons.org", "/", "licenses", "/">>
by_nc_sa_40 == <<"b","y","-","n","c","-","s","a","/","4",".","0">>
by_40       == <<"b","y","/","4",".","0">>
LicBy     == CCLicenses \o by_40 \o <<"/">>
LicByNcSa == CCLicenses \o by_nc_sa_40 \o <<"/">>
LicByNc   == CCLicenses \o <<"b","y","-","n","c","/","4",".","0","/">>
LicMit    == <<"https:", "/", "/", "opensource.org", "/", "licenses", "/", "M","I","T">>

\* Days are counted from the day the clock starts (now = 0)
IsoDay ==
    ("2025-11-05" :> -12) @@ ("2025-11-06T00:00:00Z" :> -11)
 @@ ("2025-11-17" :> 0) @@ ("2025-11-18" :> 1) @@ ("2025-11-19" :> 2)

FileNode(title, desc) ==
    [title |-> Some(title), format |-> Some(<<"t","e","x","t","/","c","s","v">>),
     description |-> desc]

DatasetNode(local, ident, start, end, issued, lic, members) ==
    [uri |-> DCM \o <<local>>, identifier |-> ident,
     title |-> Some("title " \o local), description |-> Some("about " \o local),
     startDate |-> start, endDate |-> end, issued |-> issued,
     creatorName |-> None, creatorEmail |-> None, publisherName |-> None,
     license |-> lic, keywords |-> Some("IPMI, monitoring"),
     members |-> members]

\* complete metadata, published under CC BY 4.0
DsA ==
    [DatasetNode("dsA", Some(<<"uuid-a">>), Some("2025-11-05"),
                 Some("2025-11-06T00:00:00Z"), Some("2025-11-18"), Some(LicBy),
                 << FileNode(cpu_csv, Some("cpu usage")),
                    FileNode(linux_cpu_csv, None),
                    FileNode(mem_csv, None),
                    FileNode(net_csv, None) >>)
     EXCEPT !.creatorName = Some("R. Lamberti"),
            !.creatorEmail = Some(<<"mailto:", "rl@areasciencepark.it">>),
            !.publisherName = Some("Area Science Park")]
\* no dct:issued, a license outside the table
DsB == DatasetNode("dsB", Some(<<"uuid-b">>), Some("2025-11-05"),
                   Some("2025-11-06T00:00:00Z"), None, Some(LicMit),
                   << FileNode(Linux_CPU_csv, None),
                      FileNode(ipmi_csv, None) >>)
\* no dct:temporal node
DsC == DatasetNode("dsC", Some(<<"uuid-c">>), None, None, Some("2025-11-17"),
                   Some(LicByNcSa), << >>)
\* a start date that is no ISO date, no dct:license
DsD == DatasetNode("dsD", Some(<<"uuid-d">>), Some("05/11/2025"),
                   Some("2025-11-06T00:00:00Z"), None, None, << >>)
\* no dct:identifier
DsE == DatasetNode("dsE", None, Some("2025-11-05"),
                   Some("2025-11-06T00:00:00Z"), None, Some(LicByNc), << >>)

DatasetNodes == {DsA, DsB, DsC, DsD, DsE}

ProvNs == <<"http:", "/", "/", "www.w3.org", "/", "ns", "/">>
SoftwareAgentType == ProvNs \o <<"p","r","o","v","#","S","o","f","t","w","a","r","e","A","g","e","n","t">>
PersonType        == ProvNs \o <<"p","r","o","v","#","P","e","r","s","o","n">>

\* An agent node is typed prov:Agent; `types` are its other rdf:type values
AgentNode(local, name, types) ==
    [uri |-> DCM \o <<local>>, name |-> name, types |-> types]

AgTelegraf == AgentNode("telegraf", Some("Telegraf"), {SoftwareAgentType})
AgOperator == AgentNode("operator", Some("Operator"), {PersonType})
AgQuestDB  == AgentNode("questdb", Some("QuestDB"), {})
AgentNodes == <<AgTelegraf, AgOperator, AgQuestDB>>

ActivityNode(local, label, start, end) ==
    [uri |-> DCM \o <<local>>, label |-> label, startTime |-> start,
     endTime |-> end, description |-> None]

ActCollect == ActivityNode("collect", Some("Collection"), Some("2025-11-05"), None)
ActExport  == ActivityNode("export", None, None, Some("2025-11-06T00:00:00Z"))

\* prov:wasAssociatedWith, as <<activity uri, agent uri>>
Associations ==
    { <<ActCollect.uri, AgTelegraf.uri>>, <<ActCollect.uri, DCM \o <<"nobody">> >>,
      <<ActExport.uri, AgOperator.uri>> }

SosaNs == <<"http:", "/", "/", "example.org", "/", "property", "/">>
PropertyNode(local, label, unit, unitLabel) ==
    [uri |-> SosaNs \o <<local>>, name |-> label, unit |-> unit, unitLabel |-> unitLabel]

PropCpu  == PropertyNode("cpu_usage", <<"C","P","U"," ","u","s","a","g","e">>,
                         Some("unit:PERCENT"), Some("percent"))
PropNet  == PropertyNode("net_io", <<"n","e","t","w","o","r","k"," ","i","o">>, None, None)
PropTemp == PropertyNode("temp", <<"h","e","a","t">>, None, None)
PropMem  == PropertyNode("mem_used", <<"M","e","m","o","r","y"," ","o","f"," ","C","P","U">>,
                         Some("unit:BYTE"), None)
PropertyNodes == <<PropCpu, PropNet, PropTemp, PropMem>>

\* The catalogs hold at most MaxDatasets dataset nodes
MaxDatasets == 2

DatasetSeqs ==
    UNION { {q \in [1..n -> DatasetNodes] : \A i, j \in 1..n : i # j => q[i] # q[j]}
            : n \in 0..MaxDatasets }

Catalogs ==
    { [datasets |-> q, activities |-> a, agents |-> AgentNodes,
       assoc |-> Associations, props |-> PropertyNodes]
      : q \in DatasetSeqs, a \in { <<ActCollect>>, <<ActCollect, ActExport>> } }

-----------------------------------------------------------------------------
(* The Metadata Store (models.py): one set of rows per model.              *)

EmptyDb ==
    [nodes |-> {}, sensor_types |-> {}, properties |-> {}, sensors |-> {},
     agents |-> {}, datasets |-> {}, files |-> {}, activities |-> {},
     activity_agents |-> {}]

\* QuerySet.get_or_create on a table: when a row matching the lookup is found
\* the table is left as it is, else the new row is inserted
GetOrCreate(table, found, row) == IF found THEN table ELSE table \cup {row}

\* load_compute_nodes: the two known nodes
NodesData ==
    << [hostname |-> "thin001.hpc.rd.areasciencepark.it",
        location |-> "Area Science Park HPC Cluster",
        description |-> "Compute node in HPC cluster"],
       [hostname |-> "area-rob", location |-> "Area Science Park",
        description |-> "Development workstation"] >>

RECURSIVE UpsertAll(_, _, _)
\* get_or_create of every row of `rows`, in order, keyed on field `key`
UpsertAll(table, rows, key) ==
    IF rows = << >> THEN table
    ELSE LET row == Head(rows)
             Match(r) == r[key] = row[key]
         IN UpsertAll(GetOrCreate(table, \E old \in table : Match(old), row), Tail(rows), key)

load_compute_nodes(d) == [d EXCEPT !.nodes = UpsertAll(@, NodesData, "hostname")]

SensorTypeNames ==
    <<"CPU", "LINUX_CPU", "MEMORY", "DISK_IO", "NETWORK", "INFINIBAND",
      "SMART_DEVICE", "SMART_ATTR", "IPMI", "PROCSTAT", "TURBOSTAT">>

SensorTypesData ==
    [i \in 1..Len(SensorTypeNames) |->
        [name |-> SensorTypeNames[i], description |-> "metrics", sosa_uri |-> ""]]

\* load_sensor_types with the last entry of the list left out
load_sensor_types_short(d) ==
    [d EXCEPT !.sensor_types =
        UpsertAll(@, SubSeq(SensorTypesData, 1, Len(SensorTypesData) - 1), "name")]

load_sensor_types(d) ==
    [d EXCEPT !.sensor_types = UpsertAll(@, SensorTypesData, "name")]

\* SensorType.objects.filter(name=n).first(): the name of the row, or None
SensorTypeNamed(d, n) ==
    IF \E t \in d.sensor_types : t.name = n THEN Some(n) ELSE None

\* load_observable_properties, lines 181-190: the sensor type of a label
PropertySensorType(d, label) ==
    LET name_lower == Lower(label)
        has(k) == Contains(k, name_lower)
    IN IF has(<<"c","p","u">>) \/ has(<<"p","r","o","c","e","s","s","o","r">>)
              THEN SensorTypeNamed(d, "CPU")
         ELSE IF has(<<"m","e","m","o","r","y">>) \/ has(<<"m","e","m">>)
              THEN SensorTypeNamed(d, "MEMORY")
         ELSE IF has(<<"d","i","s","k">>) \/ has(<<"i","o">>)
              THEN SensorTypeNamed(d, "DISK_IO")
         ELSE IF has(<<"n","e","t","w","o","r","k">>) \/ has(<<"n","e","t">>)
              THEN SensorTypeNamed(d, "NETWORK")
         ELSE None

RECURSIVE EachProperties(_, _)
EachProperties(d, rows) ==
    IF rows = << >> THEN d
    ELSE LET row == Head(rows)
             prop_id == SplitLast(row.uri, "/")
             sensor_type == PropertySensorType(d, row.name)
             Match(r) == r.property_name = prop_id
             new == [property_name |-> prop_id, label |-> row.name,
                     description |-> row.name,
                     unit |-> IF row.unitLabel # None THEN Val(row.unitLabel)
                              ELSE <<"dimensionless">>,
                     qudt_unit_uri |-> IF row.unit # None THEN Val(row.unit) ELSE << >>,
                     data_type |-> "FLOAT", sensor_type |-> Val(sensor_type)]
         IN IF sensor_type = None
            THEN EachProperties(d, Tail(rows))
            ELSE EachProperties(
                     [d EXCEPT !.properties = GetOrCreate(@, \E old \in @ : Match(old), new)], Tail(rows))

RECURSIVE LabelTriplesOfProps(_)
\* The rdfs:label triples of the property nodes and of their units, as
\* [s, o] in the order the graph holds them
LabelTriplesOfProps(nodes) ==
    IF nodes = << >> THEN << >>
    ELSE LET n == Head(nodes)
         IN <<[s |-> n.uri, o |-> n.name]>>
            \o (IF n.unit # None /\ n.unitLabel # None
                THEN <<[s |-> <<Val(n.unit)>>, o |-> <<Val(n.unitLabel)>>]>>
                ELSE << >>)
            \o LabelTriplesOfProps(Tail(nodes))

RECURSIVE LabelTriplesOfActivities(_)
LabelTriplesOfActivities(nodes) ==
    IF nodes = << >> THEN << >>
    ELSE (IF Head(nodes).label # None
          THEN <<[s |-> Head(nodes).uri, o |-> <<Val(Head(nodes).label)>>]>>
          ELSE << >>)
         \o LabelTriplesOfActivities(Tail(nodes))

\* Every rdfs:label triple of the graph
LabelTriples(g) == LabelTriplesOfProps(g.props) \o LabelTriplesOfActivities(g.activities)

RECURSIVE EachPropertyRows(_, _)
\* The solutions of the SELECT for the given property nodes.  With
\* qudt:hasUnit present ?unit is bound by the first OPTIONAL and the second
\* one looks for the label of that unit.  Without it ?unit is still unbound
\* when `OPTIONAL { ?unit rdfs:label ?unitLabel }` is joined, so the pattern
\* matches every rdfs:label triple of the graph: one solution per triple,
\* with ?unit bound to its subject and ?unitLabel to its object.
EachPropertyRows(nodes, labels) ==
    IF nodes = << >> THEN << >>
    ELSE LET n == Head(nodes)
         IN (IF n.unit # None
             THEN <<[uri |-> n.uri, name |-> n.name, unit |-> Some(<<Val(n.unit)>>),
                     unitLabel |-> IF n.unitLabel # None
                                   THEN Some(<<Val(n.unitLabel)>>) ELSE None]>>
             ELSE [k \in 1..Len(labels) |->
                      [uri |-> n.uri, name |-> n.name, unit |-> Some(labels[k].s),
                       unitLabel |-> Some(labels[k].o)]])
            \o EachPropertyRows(Tail(nodes), labels)

\* The rows of the SELECT of load_observable_properties
PropertyRows(g) == EachPropertyRows(g.props, LabelTriples(g))

load_observable_properties(d, g) == EachProperties(d, PropertyRows(g))

RECURSIVE SetToSeq(_)
SetToSeq(S) ==
    IF S = {} THEN << >> ELSE LET x == CHOOSE x \in S : TRUE IN <<x>> \o SetToSeq(S \ {x})

RECURSIVE AgentRowsOf(_)
\* The rows of the SELECT of load_agents: OPTIONAL { ?agent a ?type } binds
\* every rdf:type of the node, and FILTER(?type != prov:Agent) drops the row
\* that binds prov:Agent itself
AgentRowsOf(nodes) ==
    IF nodes = << >> THEN << >>
    ELSE LET n == Head(nodes)
             rows == IF n.name = None THEN << >>
                     ELSE [i \in 1..Cardinality(n.types) |->
                             [agent |-> n.uri, name |-> n.name,
                              type |-> Some(SetToSeq(n.types)[i])]]
         IN rows \o AgentRowsOf(Tail(nodes))

AgentRows(g) == AgentRowsOf(g.agents)

\* load_agents, lines 233-238
AgentType(row) ==
    IF row.type # None
    THEN (IF Contains(<<"s","o","f","t","w","a","r","e">>, Lower(Val(row.type)))
          THEN "software" ELSE "software")
    ELSE "software"

RECURSIVE EachAgents(_, _)
EachAgents(d, rows) ==
    IF rows = << >> THEN d
    ELSE LET row == Head(rows)
             agent_id == SplitLast(row.agent, "/")
             Match(r) == r.agent_id = agent_id
             new == [agent_id |-> agent_id, name |-> Val(row.name),
                     agent_type |-> AgentType(row)]
         IN EachAgents([d EXCEPT !.agents = GetOrCreate(@, \E old \in @ : Match(old), new)], Tail(rows))

load_agents(d, g) == EachAgents(d, AgentRows(g))

-----------------------------------------------------------------------------
(* load_datasets and what it calls *)

\* Python str(x) of a literal that may be None
StrOf(o) == IF o = None THEN "None" ELSE Val(o)

\* Command.parse_date: datetime.fromisoformat, then strptime('%Y-%m-%d'),
\* then None
parse_date(date_str) ==
    IF date_str \in DOMAIN IsoDay THEN Some(IsoDay[date_str]) ELSE None

\* Command.parse_datetime
parse_datetime(datetime_str) ==
    IF datetime_str \in DOMAIN IsoDay THEN Some(IsoDay[datetime_str]) ELSE None

\* An instant of the clock falls on day DayOf(t)
TicksPerDay == 2
DayOf(t) == t \div TicksPerDay

\* The variables the SELECT of load_datasets projects (lines 256-258)
DatasetSelectVars ==
    {"dataset", "identifier", "title", "description", "startDate", "endDate",
     "issued", "modified", "creatorName", "creatorEmail", "publisherName",
     "licenseName", "keywords"}

\* One result row of the SELECT for a dataset node: the WHERE clause
\* requires identifier, title and description; dct:temporal binds both dates
\* or none; ?license is bound by the WHERE clause but not projected, and
\* ?licenseName is projected but bound by no pattern
DatasetRow(n) ==
    LET temporal == n.startDate # None /\ n.endDate # None
    IN [dataset |-> n.uri, identifier |-> n.identifier, title |-> n.title,
        description |-> n.description,
        startDate |-> IF temporal THEN n.startDate ELSE None,
        endDate |-> IF temporal THEN n.endDate ELSE None,
        issued |-> n.issued, modified |-> None,
        creatorName |-> n.creatorName, creatorEmail |-> n.creatorEmail,
        publisherName |-> n.publisherName, licenseName |-> None,
        keywords |-> n.keywords]

RECURSIVE DatasetRowsOf(_)
DatasetRowsOf(nodes) ==
    IF nodes = << >> THEN << >>
    ELSE LET n == Head(nodes)
         IN (IF n.identifier # None /\ n.title # None /\ n.description # None
             THEN <<DatasetRow(n)>> ELSE << >>) \o DatasetRowsOf(Tail(nodes))

DatasetRows(g) == DatasetRowsOf(g.datasets)

\* hasattr(row, name) of an rdflib ResultRow: the projected variables
HasAttr(row, name) == name \in DOMAIN row

DefaultLicenseUrl == LicByNcSa

\* load_datasets, line 312
LicenseUrl(row) ==
    IF HasAttr(row, "license") /\ row["license"] # None
    THEN Val(row["license"]) ELSE DefaultLicenseUrl

\* load_datasets, lines 315-320
LicenseName(license_url) ==
    IF Contains(by_nc_sa_40, license_url) THEN "CC BY-NC-SA 4.0"
    ELSE IF Contains(by_40, license_url) THEN "CC BY 4.0"
    ELSE "Unknown License"

\* load_datasets, lines 296-303
DatasetId(row) ==
    LET dataset_uri == row.dataset
    IN IF row.identifier # None /\ Val(row.identifier) # << >>
       THEN Val(row.identifier)
       ELSE IF \E i \in 1..Len(dataset_uri) : dataset_uri[i] = "#"
            THEN SplitLast(dataset_uri, "#") ELSE SplitLast(dataset_uri, "/")

\* The defaults of update_or_create (lines 324-337), computed at instant t
DatasetDefaults(row, t) ==
    LET license_url == LicenseUrl(row)
    IN [title |-> Val(row.title), description |-> Val(row.description),
        start_date |-> parse_date(StrOf(row.startDate)),
        end_date |-> parse_date(StrOf(row.endDate)),
        issued |-> IF row.issued # None THEN parse_date(StrOf(row.issued))
                   ELSE Some(DayOf(t)),
        modified |-> Some(t),
        creator_name |-> IF row.creatorName # None THEN Val(row.creatorName)
                         ELSE "Unknown",
        creator_email |-> IF row.creatorEmail # None
                          THEN Remove(Val(row.creatorEmail), "mailto:") ELSE << >>,
        publisher_name |-> IF row.publisherName # None THEN Val(row.publisherName)
                           ELSE "Area Science Park",
        license_name |-> LicenseName(license_url), license_url |-> license_url,
        keywords |-> IF row.keywords # None THEN Val(row.keywords) ELSE ""]

\* MonitoringDataset: start_date, end_date and issued are NOT NULL columns
DatasetNotNull(v) == v.start_date # None /\ v.end_date # None /\ v.issued # None

\* DateField(auto_now_add=True).pre_save: on insert the store stamps today
\* over whatever was passed; on update the assigned value is written
IssuedOnSave(v, add, t) == IF add THEN Some(DayOf(t)) ELSE v.issued

\* MonitoringDataset.objects.update_or_create(dataset_id=..., defaults=...)
\* at instant t: [db, ok], ok = FALSE when the store raises IntegrityError
UpdateOrCreateDataset(d, dataset_id, defaults, t) ==
    LET add == ~ \E r \in d.datasets : r.dataset_id = dataset_id
        v == [defaults EXCEPT !.issued = IssuedOnSave(defaults, add, t),
                              !.modified = Some(t)]
        new == [dataset_id |-> dataset_id] @@ v
    IN IF ~ DatasetNotNull(v) THEN [db |-> d, ok |-> FALSE]
       ELSE [db |-> [d EXCEPT !.datasets =
                        {r \in @ : r.dataset_id # dataset_id} \cup {new}],
             ok |-> TRUE]

\* load_data_files, lines 373-383: file_size and row_count of a file name
FileSize(dir, filename) ==
    IF Exists(dir, filename) THEN Some(dir[filename].bytes) ELSE None

\* RowCount without the header-row convention
RowCountKeepsHeader(dir, filename) ==
    IF Exists(dir, filename) /\ dir[filename].text # None
    THEN Some(Len(Val(dir[filename].text)))
    ELSE None

RowCount(dir, filename) ==
    IF Exists(dir, filename) /\ dir[filename].text # None
    THEN Some(Len(Val(dir[filename].text)) - 1)
    ELSE None

\* load_data_files, lines 392-409: the branches after the two CPU tests
OtherSensorType(d, fn_lower) ==
    LET has(k) == Contains(k, fn_lower)
    IN IF has(<<"m","e","m">>) THEN SensorTypeNamed(d, "MEMORY")
       ELSE IF has(<<"d","i","s","k","i","o">>) \/ has(<<"d","i","s","k">>)
            THEN SensorTypeNamed(d, "DISK_IO")
       ELSE IF has(<<"i","n","f","i","n","i","b","a","n","d">>)
            THEN SensorTypeNamed(d, "INFINIBAND")
       ELSE IF has(<<"n","e","t">>) /\ ~ has(<<"i","n","f","i","n","i","b","a","n","d">>)
            THEN SensorTypeNamed(d, "NETWORK")
       ELSE IF has(<<"s","m","a","r","t","_","d","e","v","i","c","e">>)
               \/ has(<<"s","m","a","r","t","-","d","e","v","i","c","e">>)
            THEN SensorTypeNamed(d, "SMART_DEVICE")
       ELSE IF has(<<"s","m","a","r","t","_","a","t","t","r">>)
               \/ has(<<"s","m","a","r","t","-","a","t","t","r">>)
            THEN SensorTypeNamed(d, "SMART_ATTR")
       ELSE IF has(<<"i","p","m","i">>) THEN SensorTypeNamed(d, "IPMI")
       ELSE IF has(<<"p","r","o","c","s","t","a","t">>) THEN SensorTypeNamed(d, "PROCSTAT")
       ELSE IF has(<<"t","u","r","b","o","s","t","a","t">>) THEN SensorTypeNamed(d, "TURBOSTAT")
       ELSE None

\* FileSensorType with a bare `cpu` test in the first branch
FileSensorTypeCpuFirst(d, filename) ==
    LET fn_lower == Lower(filename)
        has(k) == Contains(k, fn_lower)
    IN IF has(<<"c","p","u">>) THEN SensorTypeNamed(d, "CPU")
       ELSE IF has(<<"l","i","n","u","x","_","c","p","u">>)
               \/ has(<<"l","i","n","u","x","-","c","p","u">>)
            THEN SensorTypeNamed(d, "LINUX_CPU")
       ELSE OtherSensorType(d, fn_lower)

\* load_data_files, lines 385-409: the sensor type inferred from a file name
FileSensorType(d, filename) ==
    LET fn_lower == Lower(filename)
        has(k) == Contains(k, fn_lower)
    IN IF has(<<"c","p","u">>) /\ ~ has(<<"l","i","n","u","x">>)
       THEN SensorTypeNamed(d, "CPU")
       ELSE IF has(<<"l","i","n","u","x","_","c","p","u">>)
               \/ has(<<"l","i","n","u","x","-","c","p","u">>)
            THEN SensorTypeNamed(d, "LINUX_CPU")
       ELSE OtherSensorType(d, fn_lower)

RECURSIVE FileRowsOf(_)
\* The rows of the SELECT of load_data_files: members with title and format
FileRowsOf(members) ==
    IF members = << >> THEN << >>
    ELSE LET m == Head(members)
         IN (IF m.title # None /\ m.format # None THEN <<m>> ELSE << >>)
            \o FileRowsOf(Tail(members))

RECURSIVE MembersOf(_, _)
\* <dataset_uri> prov:hadMember ?file
MembersOf(nodes, dataset_uri) ==
    IF nodes = << >> THEN << >>
    ELSE (IF Head(nodes).uri = dataset_uri THEN Head(nodes).members ELSE << >>)
         \o MembersOf(Tail(nodes), dataset_uri)

FileRows(g, dataset_uri) == FileRowsOf(MembersOf(g.datasets, dataset_uri))

\* The DataFile row that load_data_files builds for one member (lines 370-426)
DataFileRow(d, dir, dataset_id, row) ==
    LET filename == Val(row.title)
        media_type == IF row.format # None THEN Val(row.format)
                      ELSE <<"t","e","x","t","/","c","s","v">>
    IN [dataset |-> dataset_id, filename |-> filename,
        file_path |-> <<"datasets", "/">> \o filename,
        file_format |-> IF Contains(<<"c","s","v">>, Lower(media_type))
                        THEN "CSV" ELSE "unknown",
        media_type |-> media_type,
        description |-> IF row.description # None THEN Val(row.description) ELSE "",
        file_size |-> FileSize(dir, filename),
        row_count |-> RowCount(dir, filename),
        sensor_type |-> FileSensorType(d, filename)]

RECURSIVE EachDataFilesUpdating(_, _, _, _)
\* EachDataFiles with the matching row overwritten by the new one
EachDataFilesUpdating(d, dir, dataset_id, rows) ==
    IF rows = << >> THEN d
    ELSE LET new == DataFileRow(d, dir, dataset_id, Head(rows))
             Match(r) == r.dataset = dataset_id /\ r.filename = new.filename
         IN EachDataFilesUpdating(
                [d EXCEPT !.files = {r \in @ : ~ Match(r)} \cup {new}],
                dir, dataset_id, Tail(rows))

RECURSIVE EachDataFiles(_, _, _, _)
\* load_data_files, lines 369-430: the loop over the members
EachDataFiles(d, dir, dataset_id, rows) ==
    IF rows = << >> THEN d
    ELSE LET new == DataFileRow(d, dir, dataset_id, Head(rows))
             Match(r) == r.dataset = dataset_id /\ r.filename = new.filename
         IN EachDataFiles([d EXCEPT !.files = GetOrCreate(@, \E old \in @ : Match(old), new)],
                          dir, dataset_id, Tail(rows))

load_data_files(d, g, dir, dataset_id, dataset_uri) ==
    EachDataFiles(d, dir, dataset_id, FileRows(g, dataset_uri))

\* load_activity_agents: the agents linked to a newly created activity.  The
\* lookup URI is the DCM namespace followed by the stored activity_id
ActivityAgentLinks(d, g, activity_id) ==
    LET lookup == DCM \o activity_id
    IN { <<activity_id, SplitLast(p[2], "/")>> :
           p \in { q \in g.assoc :
                     /\ q[1] = lookup
                     /\ \E a \in d.agents : a.agent_id = SplitLast(q[2], "/") } }

load_activity_agents(d, g, activity_id) ==
    [d EXCEPT !.activity_agents = @ \cup ActivityAgentLinks(d, g, activity_id)]

\* The rows of the SELECT of load_activities: every prov:Activity of the graph
ActivityRows(g) == g.activities

\* The defaults of get_or_create in load_activities (lines 451-464)
ActivityRow(row, dataset_id) ==
    [activity_id |-> SplitLast(row.uri, "/"), dataset |-> dataset_id,
     activity_type |-> IF row.label # None THEN Val(row.label)
                       ELSE "Data Collection Activity",
     description |-> IF row.description # None THEN Val(row.description) ELSE "",
     start_time |-> IF row.startTime # None
                    THEN parse_datetime(StrOf(row.startTime)) ELSE None,
     end_time |-> IF row.endTime # None
                  THEN parse_datetime(StrOf(row.endTime)) ELSE None]

RECURSIVE EachActivitiesReassigning(_, _, _, _)
\* load_activities with update_or_create in place of get_or_create: an
\* activity that exists is moved to the dataset being processed
EachActivitiesReassigning(d, g, dataset_id, rows) ==
    IF rows = << >> THEN [db |-> d, ok |-> TRUE]
    ELSE LET new == ActivityRow(Head(rows), dataset_id)
             same == {r \in d.activities : r.activity_id = new.activity_id}
         IN IF new.start_time = None THEN [db |-> d, ok |-> FALSE]
            ELSE EachActivitiesReassigning(
                    load_activity_agents(
                        [d EXCEPT !.activities = (@ \ same) \cup {new}],
                        g, new.activity_id),
                    g, dataset_id, Tail(rows))

RECURSIVE EachActivities(_, _, _, _)
\* [db, ok]: ok = FALSE when the insert of an activity raises IntegrityError
\* (DataCollectionActivity.start_time is a NOT NULL column)
EachActivities(d, g, dataset_id, rows) ==
    IF rows = << >> THEN [db |-> d, ok |-> TRUE]
    ELSE LET new == ActivityRow(Head(rows), dataset_id)
             exists == \E r \in d.activities : r.activity_id = new.activity_id
         IN IF exists THEN EachActivities(d, g, dataset_id, Tail(rows))
            ELSE IF new.start_time = None THEN [db |-> d, ok |-> FALSE]
            ELSE EachActivities(
                    load_activity_agents(
                        [d EXCEPT !.activities = @ \cup {new}], g, new.activity_id),
                    g, dataset_id, Tail(rows))

load_activities(d, g, dataset_id) == EachActivities(d, g, dataset_id, ActivityRows(g))

\* One iteration of the loop of load_datasets (lines 294-349) at instant t
LoadDatasetRow(d, g, dir, row, t) ==
    LET dataset_id == DatasetId(row)
        up == UpdateOrCreateDataset(d, dataset_id, DatasetDefaults(row, t), t)
    IN IF ~ up.ok THEN up
       ELSE load_activities(load_data_files(up.db, g, dir, dataset_id, row.dataset),
                            g, dataset_id)

\* Model.objects.all().delete() of one table.  Rows that reference the
\* deleted ones through on_delete=CASCADE (and the rows of the many-to-many
\* table between activities and agents) are deleted with them; a row that
\* references one through on_delete=PROTECT makes the delete raise
\* ProtectedError and nothing is deleted.  [db, ok]
DeleteAll(d, table) ==
    IF table = "activities"
    THEN [db |-> [d EXCEPT !.activities = {}, !.activity_agents = {}], ok |-> TRUE]
    ELSE IF table = "files" THEN [db |-> [d EXCEPT !.files = {}], ok |-> TRUE]
    ELSE IF table = "datasets"
    THEN [db |-> [d EXCEPT !.datasets = {}, !.files = {}, !.activities = {},
                           !.activity_agents = {}],
          ok |-> TRUE]
    ELSE IF table = "sensors" THEN [db |-> [d EXCEPT !.sensors = {}], ok |-> TRUE]
    ELSE IF table = "properties" THEN [db |-> [d EXCEPT !.properties = {}], ok |-> TRUE]
    ELSE IF table = "sensor_types"
    THEN IF \/ \E x \in d.sensors : \E t \in d.sensor_types : x.sensor_type = t.name
            \/ \E f \in d.files : \E t \in d.sensor_types : f.sensor_type = Some(t.name)
         THEN [db |-> d, ok |-> FALSE]
         ELSE [db |-> [d EXCEPT !.sensor_types = {}, !.properties = {}], ok |-> TRUE]
    ELSE IF table = "agents"
    THEN [db |-> [d EXCEPT !.agents = {}, !.activity_agents = {}], ok |-> TRUE]
    ELSE [db |-> [d EXCEPT !.nodes = {}, !.sensors = {}], ok |-> TRUE]

RECURSIVE DeleteEach(_, _)
\* The deletes of `tables` in order, up to the first that raises.  [db, ok]
DeleteEach(d, tables) ==
    IF tables = << >> THEN [db |-> d, ok |-> TRUE]
    ELSE LET r == DeleteAll(d, Head(tables))
         IN IF r.ok THEN DeleteEach(r.db, Tail(tables)) ELSE r

\* ClearAll with the sensor types deleted first
ClearAllTypesFirst(d) ==
    DeleteEach(d, <<"sensor_types", "activities", "files", "datasets", "sensors",
                    "properties", "agents", "nodes">>)

\* handle, lines 77-87: the eight deletes, in the order of the source
ClearAll(d) ==
    DeleteEach(d, <<"activities", "files", "datasets", "sensors", "properties",
                    "sensor_types", "agents", "nodes">>)

\* HandleEntry with the clear step ahead of the existence checks
HandleEntryClearFirst(d, o) ==
    LET c == IF o.clear THEN ClearAll(d) ELSE [db |-> d, ok |-> TRUE]
    IN IF ~ c.ok THEN [db |-> c.db, pc |-> "protected"]
       ELSE IF ~ o.catalog_exists THEN [db |-> c.db, pc |-> "failed"]
       ELSE IF ~ o.dir_exists THEN [db |-> c.db, pc |-> "failed"]
       ELSE [db |-> c.db, pc |-> "load_compute_nodes"]

\* handle, lines 66-87: the two existence checks, then the clear step.
\* [db, pc]: pc = "failed" when CommandError is raised, "protected" when a
\* delete of the clear step raises ProtectedError
HandleEntry(d, o) ==
    IF ~ o.catalog_exists THEN [db |-> d, pc |-> "failed"]
    ELSE IF ~ o.dir_exists THEN [db |-> d, pc |-> "failed"]
    ELSE IF ~ o.clear THEN [db |-> d, pc |-> "load_compute_nodes"]
    ELSE LET c == ClearAll(d)
         IN [db |-> c.db, pc |-> IF c.ok THEN "load_compute_nodes" ELSE "protected"]

-----------------------------------------------------------------------------
(* The command `manage.py load_metadata`, one action per step of handle *)

\* The command is run at most MaxRuns times
MaxRuns == 2

Options == [catalog_exists : BOOLEAN, dir_exists : BOOLEAN, clear : BOOLEAN]

Ended == {"idle", "done", "failed", "crashed", "protected"}

NoRequest == [view |-> "none"]

Init ==
    /\ db = EmptyDb
    /\ catalog \in Catalogs
    /\ datadir = DataDir
    /\ now = 0
    /\ pc = "idle"
    /\ opts = [catalog_exists |-> TRUE, dir_exists |-> TRUE, clear |-> FALSE]
    /\ idx = 1
    /\ runs = 0
    /\ prev = "idle"
    /\ db0 = EmptyDb
    /\ req = NoRequest
    /\ resp = NoRequest

\* The command is started, some time after the previous run ended
Handle(o, dt) ==
    /\ pc \in Ended
    /\ runs < MaxRuns
    /\ LET r == HandleEntry(db, o)
       IN /\ db' = r.db
          /\ pc' = r.pc
    /\ now' = now + dt
    /\ opts' = o
    /\ idx' = 1
    /\ runs' = runs + 1
    /\ prev' = pc
    /\ db0' = db
    /\ UNCHANGED <<catalog, datadir, req, resp>>

LoadComputeNodes ==
    /\ pc = "load_compute_nodes"
    /\ db' = load_compute_nodes(db)
    /\ pc' = "load_sensor_types"
    /\ UNCHANGED <<catalog, datadir, now, opts, idx, runs, prev, db0, req, resp>>

LoadSensorTypes ==
    /\ pc = "load_sensor_types"
    /\ db' = load_sensor_types(db)
    /\ pc' = "load_observable_properties"
    /\ UNCHANGED <<catalog, datadir, now, opts, idx, runs, prev, db0, req, resp>>

LoadObservableProperties ==
    /\ pc = "load_observable_properties"
    /\ db' = load_observable_properties(db, catalog)
    /\ pc' = "load_agents"
    /\ UNCHANGED <<catalog, datadir, now, opts, idx, runs, prev, db0, req, resp>>

LoadAgents ==
    /\ pc = "load_agents"
    /\ db' = load_agents(db, catalog)
    /\ pc' = "load_datasets"
    /\ UNCHANGED <<catalog, datadir, now, opts, idx, runs, prev, db0, req, resp>>

\* One iteration of the loop of load_datasets; an IntegrityError of the store
\* is not caught anywhere and ends the command
LoadDataset ==
    /\ pc = "load_datasets"
    /\ idx <= Len(DatasetRows(catalog))
    /\ LET r == LoadDatasetRow(db, catalog, datadir, DatasetRows(catalog)[idx], now)
       IN /\ db' = r.db
          /\ pc' = IF r.ok THEN "load_datasets" ELSE "crashed"
          /\ idx' = IF r.ok THEN idx + 1 ELSE idx
    /\ UNCHANGED <<catalog, datadir, now, opts, runs, prev, db0, req, resp>>

\* The loop of load_datasets is over: handle returns
Finish ==
    /\ pc = "load_datasets"
    /\ idx > Len(DatasetRows(catalog))
    /\ pc' = "done"
    /\ UNCHANGED <<db, catalog, datadir, now, opts, idx, runs, prev, db0, req, resp>>

Next ==
    \/ \E o \in Options, dt \in 1..TicksPerDay : Handle(o, dt)
    \/ LoadComputeNodes
    \/ LoadSensorTypes
    \/ LoadObservableProperties
    \/ LoadAgents
    \/ LoadDataset
    \/ Finish

Spec == Init /\ [][Next]_vars

-----------------------------------------------------------------------------
(* The observation query surface: pandas and Python helpers *)

Digits == <<"0","1","2","3","4","5","6","7","8","9">>
IsDigit(c) == \E i \in 1..10 : Digits[i] = c
DigitVal(c) == (CHOOSE i \in 1..10 : Digits[i] = c) - 1
IsDigits(s) == Len(s) >= 1 /\ \A i \in 1..Len(s) : IsDigit(s[i])

RECURSIVE DigitsVal(_)
DigitsVal(s) ==
    IF s = << >> THEN 0
    ELSE 10 * DigitsVal(SubSeq(s, 1, Len(s) - 1)) + DigitVal(s[Len(s)])

\* Python int(s) of a query parameter: Some(n), or None for ValueError
ParseInt(s) ==
    IF IsDigits(s) THEN Some(DigitsVal(s))
    ELSE IF Len(s) >= 2 /\ s[1] = "-" /\ IsDigits(Tail(s)) THEN Some(0 - DigitsVal(Tail(s)))
    ELSE None

RECURSIVE IntStr(_)
\* Python str(n) of a non-negative integer
IntStr(n) == IF n < 10 THEN <<Digits[n + 1]>> ELSE IntStr(n \div 10) \o <<Digits[(n % 10) + 1]>>

\* Python str(n) of an integer
PyStr(n) == IF n < 0 THEN <<"-">> \o IntStr(0 - n) ELSE IntStr(n)

\* Python seq[start:stop], also for negative and out-of-range bounds
PySlice(seq, start, stop) ==
    LET n == Len(seq)
        clip(i) == IF i < 0 THEN (IF n + i < 0 THEN 0 ELSE n + i)
                   ELSE (IF i > n THEN n ELSE i)
    IN SubSeq(seq, clip(start) + 1, clip(stop))

\* pandas.read_csv of a file: None when it raises (a file that is no text,
\* a file without any line), else the frame: the columns of the header line,
\* the data lines, and for each column whether pandas infers an integer
\* dtype (every cell of the column is a number, and there is at least one)
ReadCsv(file) ==
    IF file.text = None \/ Val(file.text) = << >> THEN None
    ELSE LET lines == Val(file.text)
             columns == Head(lines)
             rows == Tail(lines)
         IN Some([columns |-> columns, rows |-> rows,
                  numeric |-> [c \in 1..Len(columns) |->
                                 /\ rows # << >>
                                 /\ \A i \in 1..Len(rows) : IsDigits(rows[i][c])]])

\* The index of a column name in a frame, 0 when the frame has no such column
ColumnOf(df, key) ==
    IF \E c \in 1..Len(df.columns) : df.columns[c] = key
    THEN CHOOSE c \in 1..Len(df.columns) : df.columns[c] = key
    ELSE 0

\* df[key].astype(str) of one cell: a cell of an integer column prints as the
\* number it was parsed to
CellStr(df, c, row) ==
    IF df.numeric[c] THEN IntStr(DigitsVal(row[c])) ELSE row[c]

\* re.compile(pat) succeeds: of the regular expression syntax the model
\* knows literal characters, the wildcard "." and the group parentheses
RegexValid(pat) == \A i \in 1..Len(pat) : pat[i] # "(" /\ pat[i] # ")"

\* re.search(pat, text, re.IGNORECASE) is not None, for a valid pattern
RegexSearch(pat, text) ==
    \E i \in 0..(Len(text) - Len(pat)) :
        \A j \in 1..Len(pat) :
            pat[j] = "." \/ LowerChar(pat[j]) = LowerChar(text[i + j])

\* Series.str.contains(value, case=False, na=False): regex=True is the default
StrContains(text, value) == RegexSearch(value, text)

-----------------------------------------------------------------------------
(* views.query_observations, views.download_file, rest_views.observations_view *)

k_limit  == <<"l","i","m","i","t">>
k_offset == <<"o","f","f","s","e","t">>
k_format == <<"f","o","r","m","a","t">>
k_file   == <<"f","i","l","e">>
v_csv    == <<"c","s","v">>
v_json   == <<"j","s","o","n">>

\* min(limit, 10000)
MaxLimit == 10000
\* request.GET.get('limit', 100)
DefaultLimit == 100

\* request.GET.get(key): the query parameters are <<key, value>> pairs
ParamGet(params, key) ==
    LET at == {i \in 1..Len(params) : params[i][1] = key}
    IN IF at = {} THEN None
       ELSE Some(params[CHOOSE i \in at : \A j \in at : j <= i][2])

\* int(request.GET.get(key, default)): None when int() raises ValueError
IntParam(params, key, default) ==
    IF ParamGet(params, key) = None THEN Some(default)
    ELSE ParseInt(Val(ParamGet(params, key)))

Min(a, b) == IF a < b THEN a ELSE b
Max(a, b) == IF a > b THEN a ELSE b

\* The body DRF builds for Http404 (get_object_or_404 inside an api_view)
NotFound == [status |-> 404, kind |-> "error", error |-> "Not found."]
\* An exception that leaves the view: Django's handler answers, not the view
Unhandled(exc) == [status |-> 500, kind |-> "unhandled", exception |-> exc]
ErrorBody(code, text) == [status |-> code, kind |-> "error", error |-> text]

\* query_observations, line 207: one filter applied to the rows of a frame
SubstringFilter(df, c, value) ==
    SelectSeq(df.rows, LAMBDA row : StrContains(CellStr(df, c, row), value))

RECURSIVE ApplyFilters(_, _)
\* query_observations, lines 204-207: None when str.contains raises
ApplyFilters(df, params) ==
    IF params = << >> THEN Some(df)
    ELSE LET key == Head(params)[1]
             value == Head(params)[2]
             c == ColumnOf(df, key)
         IN IF key \in {k_limit, k_offset, k_format} \/ c = 0
            THEN ApplyFilters(df, Tail(params))
            ELSE IF ~ RegexValid(value) THEN None
            ELSE ApplyFilters([df EXCEPT !.rows = SubstringFilter(df, c, value)],
                              Tail(params))

\* The records of a page: the cells as the frame holds them
Records(df, rows) ==
    [i \in 1..Len(rows) |-> [c \in 1..Len(df.columns) |-> CellStr(df, c, rows[i])]]

\* The query string of links.next and links.prev of query_observations
\* (lines 249-251): `?limit={limit}&offset={...}` and nothing else
LinkParams(link) ==
    << <<k_limit, PyStr(link.limit)>>, <<k_offset, PyStr(link.offset)>> >>

\* QueryPage with the prev link at offset - limit, not floored
QueryPageUnflooredPrev(df, dataset_id, filename, params, limit, offset) ==
    LET total_rows == Len(df.rows)
        page == PySlice(df.rows, offset, offset + limit)
        format_type == IF ParamGet(params, k_format) = None THEN v_json
                       ELSE Val(ParamGet(params, k_format))
    IN IF format_type = v_csv
       THEN [status |-> 200, kind |-> "csv", columns |-> df.columns,
             data |-> Records(df, page)]
       ELSE [status |-> 200, kind |-> "json", file |-> filename,
             dataset |-> dataset_id, total_rows |-> total_rows,
             returned_rows |-> Len(page), offset |-> offset, limit |-> limit,
             columns |-> df.columns, data |-> Records(df, page),
             next |-> IF offset + limit < total_rows
                      THEN Some([limit |-> limit, offset |-> offset + limit])
                      ELSE None,
             prev |-> IF offset > 0
                      THEN Some([limit |-> limit, offset |-> offset - limit])
                      ELSE None]

\* query_observations, lines 209-256, after the filters
QueryPage(df, dataset_id, filename, params, limit, offset) ==
    LET total_rows == Len(df.rows)
        page == PySlice(df.rows, offset, offset + limit)
        format_type == IF ParamGet(params, k_format) = None THEN v_json
                       ELSE Val(ParamGet(params, k_format))
    IN IF format_type = v_csv
       THEN [status |-> 200, kind |-> "csv", columns |-> df.columns,
             data |-> Records(df, page)]
       ELSE [status |-> 200, kind |-> "json", file |-> filename,
             dataset |-> dataset_id, total_rows |-> total_rows,
             returned_rows |-> Len(page), offset |-> offset, limit |-> limit,
             columns |-> df.columns, data |-> Records(df, page),
             next |-> IF offset + limit < total_rows
                      THEN Some([limit |-> limit, offset |-> offset + limit])
                      ELSE None,
             prev |-> IF offset > 0
                      THEN Some([limit |-> limit, offset |-> Max(0, offset - limit)])
                      ELSE None]

\* QueryFile with the window cut out of the file before the filters
QueryFilePageFirst(dir, dataset_id, filename, params) ==
    LET limit_in == IntParam(params, k_limit, DefaultLimit)
        offset_in == IntParam(params, k_offset, 0)
    IN IF limit_in = None \/ offset_in = None THEN Unhandled("ValueError")
       ELSE LET limit == Min(Val(limit_in), MaxLimit)
                offset == Val(offset_in)
                df == ReadCsv(dir[filename])
                cut == [Val(df) EXCEPT !.rows = PySlice(@, offset, offset + limit)]
                filtered == ApplyFilters(cut, params)
            IN IF df = None THEN ErrorBody(500, "Error reading file")
               ELSE IF filtered = None THEN ErrorBody(500, "Error reading file")
               ELSE QueryPage(Val(filtered), dataset_id, filename, params, limit, 0)

\* query_observations, lines 194-262
QueryFile(dir, dataset_id, filename, params) ==
    LET limit_in == IntParam(params, k_limit, DefaultLimit)
        offset_in == IntParam(params, k_offset, 0)
    IN IF limit_in = None \/ offset_in = None THEN Unhandled("ValueError")
       ELSE LET limit == Min(Val(limit_in), MaxLimit)
                offset == Val(offset_in)
                df == ReadCsv(dir[filename])
                filtered == ApplyFilters(Val(df), params)
            IN IF df = None THEN ErrorBody(500, "Error reading file")
               ELSE IF filtered = None THEN ErrorBody(500, "Error reading file")
               ELSE QueryPage(Val(filtered), dataset_id, filename, params, limit, offset)

\* table_name if table_name.endswith('.csv') else f'{table_name}.csv'
TableFile(table_name) ==
    IF EndsWith(table_name, dot_csv) THEN table_name ELSE table_name \o dot_csv

HasDataset(d, dataset_id) == \E r \in d.datasets : r.dataset_id = dataset_id
\* HasDataFile with the lookup on the file name alone
HasDataFileAnyDataset(d, dataset_id, filename) ==
    \E f \in d.files : f.filename = filename

HasDataFile(d, dataset_id, filename) ==
    \E f \in d.files : f.dataset = dataset_id /\ f.filename = filename

\* query_observations, lines 188-192: the 404 body that names the file
NotOnDisk(filename) ==
    [status |-> 404, kind |-> "error", error |-> "File not found on disk",
     filename |-> filename]

\* query_observations with limit and offset converted ahead of the lookups
query_observations_parse_first(d, dir, dataset_id, table_name, params) ==
    LET filename == TableFile(table_name)
    IN IF IntParam(params, k_limit, DefaultLimit) = None
          \/ IntParam(params, k_offset, 0) = None
       THEN Unhandled("ValueError")
       ELSE IF ~ HasDataset(d, dataset_id) THEN NotFound
       ELSE IF ~ HasDataFile(d, dataset_id, filename) THEN NotFound
       ELSE IF ~ Exists(dir, filename) THEN NotOnDisk(filename)
       ELSE QueryFile(dir, dataset_id, filename, params)

\* views.query_observations
query_observations(d, dir, dataset_id, table_name, params) ==
    LET filename == TableFile(table_name)
    IN IF ~ HasDataset(d, dataset_id) THEN NotFound
       ELSE IF ~ HasDataFile(d, dataset_id, filename) THEN NotFound
       ELSE IF ~ Exists(dir, filename) THEN NotOnDisk(filename)
       ELSE QueryFile(dir, dataset_id, filename, params)

\* views.download_file: a plain Django view, Http404 gives Django's 404 page
download_file(d, dir, dataset_id, filename) ==
    IF ~ HasDataset(d, dataset_id) THEN [status |-> 404, kind |-> "page"]
    ELSE IF ~ HasDataFile(d, dataset_id, filename) THEN [status |-> 404, kind |-> "page"]
    ELSE IF ~ Exists(dir, filename) THEN [status |-> 404, kind |-> "text"]
    ELSE [status |-> 200, kind |-> "file", filename |-> filename,
          content |-> dir[filename]]

\* observations_view, lines 150-159: one filter applied to the rows of a frame
TypedFilter(df, c, value) ==
    IF ~ df.numeric[c]
    THEN SelectSeq(df.rows, LAMBDA row : StrContains(CellStr(df, c, row), value))
    ELSE IF ParseInt(value) = None THEN df.rows
    ELSE SelectSeq(df.rows, LAMBDA row : DigitsVal(row[c]) = Val(ParseInt(value)))

RECURSIVE ApplyTypedFilters(_, _)
\* observations_view, lines 141-159: None when str.contains raises
ApplyTypedFilters(df, params) ==
    IF params = << >> THEN Some(df)
    ELSE LET param == Head(params)[1]
             value == Head(params)[2]
             c == ColumnOf(df, param)
         IN IF param \in {k_file, k_limit, k_offset, k_format} \/ value = << >> \/ c = 0
            THEN ApplyTypedFilters(df, Tail(params))
            ELSE IF ~ df.numeric[c] /\ ~ RegexValid(value) THEN None
            ELSE ApplyTypedFilters([df EXCEPT !.rows = TypedFilter(df, c, value)],
                                   Tail(params))

\* rest_views.observations_view
\* observations_view, line 127: the file that file_path names
FilePath(filename) == Resolve(<< >>, JoinPath(DATASETS_PATH, filename))

observations_view(dir, params) ==
    LET filename == ParamGet(params, k_file)
        limit_in == IntParam(params, k_limit, DefaultLimit)
        offset_in == IntParam(params, k_offset, 0)
    IN IF limit_in = None \/ offset_in = None THEN Unhandled("ValueError")
       ELSE IF filename = None \/ filename = Some(<< >>)
            THEN ErrorBody(400, "Missing 'file' parameter")
       ELSE IF ~ PathExists(dir, FilePath(Val(filename))) THEN ErrorBody(404, "not found")
       ELSE IF IsDirectory(dir, FilePath(Val(filename)))
            THEN ErrorBody(500, "Error reading file")
       ELSE LET limit == Min(Val(limit_in), MaxLimit)
                offset == Val(offset_in)
                df == ReadCsv(Disk(dir)[FilePath(Val(filename))])
                filtered == ApplyTypedFilters(Val(df), params)
                page == PySlice(Val(filtered).rows, offset, offset + limit)
            IN IF df = None THEN ErrorBody(500, "Error reading file")
               ELSE IF filtered = None THEN ErrorBody(500, "Error reading file")
               ELSE [status |-> 200, kind |-> "json", file |-> Val(filename),
                     total_matching |-> Len(Val(filtered).rows),
                     count |-> Len(page), offset |-> offset, limit |-> limit,
                     observations |-> Records(Val(filtered), page)]

-----------------------------------------------------------------------------
(* The requests served.  The store is the one a completed run of            *)
(* load_metadata over the catalog <<DsA, DsB>> leaves.                     *)

RECURSIVE EachDataset(_, _, _, _, _)
\* The loop of load_datasets over all rows: [db, ok]
EachDataset(d, g, dir, rows, t) ==
    IF rows = << >> THEN [db |-> d, ok |-> TRUE]
    ELSE LET r == LoadDatasetRow(d, g, dir, Head(rows), t)
         IN IF r.ok THEN EachDataset(r.db, g, dir, Tail(rows), t) ELSE r

\* handle, lines 95-100, run to its end at instant t
LoadAll(d, g, dir, t) ==
    EachDataset(load_agents(load_observable_properties(
                    load_sensor_types(load_compute_nodes(d)), g), g),
                g, dir, DatasetRows(g), t)

QueryCatalog ==
    [datasets |-> <<DsA, DsB>>, activities |-> <<ActCollect>>, agents |-> AgentNodes,
     assoc |-> Associations, props |-> PropertyNodes]

val_thin == <<"t","h","i","n">>
val_a_e  == <<"a",".","e">>
val_open == <<"(">>
k_nosuch == <<"n","o","s","u","c","h">>

\* The column filters a request may carry, at most MaxFilters of them
FilterPairs ==
    { <<col_host, val_thin>>, <<col_host, val_a_e>>, <<col_host, val_open>>,
      <<col_value, <<"1">> >>, <<col_value, <<"7">> >>, <<col_value, <<"x">> >>,
      <<k_nosuch, <<"x">> >> }

MaxFilters == 2

FilterSeqs ==
    UNION { {q \in [1..n -> FilterPairs] : \A i, j \in 1..n : i # j => q[i][1] # q[j][1]}
            : n \in 0..MaxFilters }

LimitParams ==
    { << >>, << <<k_limit, <<"a","b","c">> >> >>, << <<k_limit, <<"-","1">> >> >>,
      << <<k_limit, <<"0">> >> >>, << <<k_limit, <<"2">> >> >>,
      << <<k_limit, <<"1","0","0","0","0","0","0","0">> >> >> }

OffsetParams ==
    { << >>, << <<k_offset, <<"1",".","5">> >> >>, << <<k_offset, <<"-","1">> >> >>,
      << <<k_offset, <<"1">> >> >>, << <<k_offset, IntStr(MaxDataLines)>> >>,
      << <<k_offset, <<"9">> >> >> }

FormatParams == { << >>, << <<k_format, v_csv>> >> }

\* The query strings: pagination first, then the filters, or the reverse
QueryParams ==
    { l \o o \o f \o q : l \in LimitParams, o \in OffsetParams, f \in FormatParams,
                         q \in FilterSeqs }
    \cup { q \o l : l \in LimitParams, q \in FilterSeqs }

DatasetIds == { <<"uuid-a">>, <<"uuid-b">>, <<"uuid-x">> }
FileNames == { cpu_csv, linux_cpu_csv, Linux_CPU_csv, mem_csv, ipmi_csv, net_csv,
               <<"g","p","u",".","c","s","v">> }
TableNames == FileNames \cup { <<"c","p","u">>, <<"n","e","t">> }

\* A few query strings, for the requests that name other datasets and files
BasicParams ==
    { << >>, << <<k_limit, <<"a","b","c">> >> >>, << <<col_host, val_thin>> >>,
      << <<col_host, val_open>> >> }

ObservationRequests ==
    { [view |-> "query_observations", dataset_id |-> <<"uuid-a">>,
       table_name |-> <<"c","p","u">>, params |-> p] : p \in QueryParams }
    \cup { [view |-> "query_observations", dataset_id |-> i, table_name |-> n,
            params |-> p] : i \in DatasetIds, n \in TableNames, p \in BasicParams }

\* File values that are no plain name: a parent segment, an absolute path,
\* the parent directory itself
PathNames == { up_key_csv, etc_hosts_csv, <<".", ".">> }

FileParams ==
    { << >> } \cup { << <<k_file, n>> >> : n \in FileNames \cup PathNames \cup { << >> } }

RestRequests ==
    { [view |-> "observations_view", params |-> << <<k_file, cpu_csv>> >> \o p]
        : p \in QueryParams }
    \cup { [view |-> "observations_view", params |-> f \o p]
             : f \in FileParams, p \in BasicParams }

DownloadRequests ==
    { [view |-> "download_file", dataset_id |-> i, filename |-> n]
        : i \in DatasetIds, n \in FileNames }

InitQuery ==
    /\ catalog = QueryCatalog
    /\ datadir = DataDir
    /\ \/ /\ db = EmptyDb
          /\ now = 0 /\ pc = "idle" /\ idx = 1 /\ runs = 0
       \/ /\ db = LoadAll(EmptyDb, QueryCatalog, DataDir, 1).db
          /\ now = 1 /\ pc = "done" /\ idx = Len(DatasetRows(QueryCatalog)) + 1 /\ runs = 1
    /\ opts = [catalog_exists |-> TRUE, dir_exists |-> TRUE, clear |-> FALSE]
    /\ prev = "idle"
    /\ db0 = EmptyDb
    /\ req = NoRequest
    /\ resp = NoRequest

\* GET /datasets/<dataset_id>/<table_name>?<params>
QueryObservations(r) ==
    /\ req = NoRequest
    /\ req' = r
    /\ resp' = query_observations(db, datadir, r.dataset_id, r.table_name, r.params)
    /\ UNCHANGED <<db, catalog, datadir, now, pc, opts, idx, runs, prev, db0>>

\* GET /api/observations/?<params>
ObservationsView(r) ==
    /\ req = NoRequest
    /\ req' = r
    /\ resp' = observations_view(datadir, r.params)
    /\ UNCHANGED <<db, catalog, datadir, now, pc, opts, idx, runs, prev, db0>>

\* GET /datasets/<dataset_id>/files/<filename>
DownloadFile(r) ==
    /\ req = NoRequest
    /\ req' = r
    /\ resp' = download_file(db, datadir, r.dataset_id, r.filename)
    /\ UNCHANGED <<db, catalog, datadir, now, pc, opts, idx, runs, prev, db0>>

\* The response is sent; the worker takes the next request
Respond ==
    /\ req # NoRequest
    /\ req' = NoRequest
    /\ resp' = NoRequest
    /\ UNCHANGED <<db, catalog, datadir, now, pc, opts, idx, runs, prev, db0>>

NextQuery ==
    \/ Respond
    \/ \E r \in ObservationRequests : QueryObservations(r)
    \/ \E r \in RestRequests : ObservationsView(r)
    \/ \E r \in DownloadRequests : DownloadFile(r)

SpecQuery == InitQuery /\ [][NextQuery]_vars

-----------------------------------------------------------------------------
(* The command run again after the catalog and the data directory changed,  *)
(* on a store that also holds rows entered through the admin site.          *)

\* The data directory some time later: cpu.csv has grown by one line, mem.csv
\* has got its header, net.csv has arrived and linux_cpu.csv is gone
DataDirLater ==
    (cpu_csv       :> TextFile(Append(CpuLines, CpuLine(MaxDataLines + 1))))
 @@ (Linux_CPU_csv :> TextFile(<< <<col_host>>, <<thin001>> >>))
 @@ (mem_csv       :> TextFile(<< <<col_host, col_value>> >>))
 @@ (net_csv       :> TextFile(<< <<col_host>>, <<area_rob>> >>))
 @@ (ipmi_csv      :> BinaryFile(16))

\* The dataset dsA with the description of cpu.csv rewritten
DsALater ==
    [DsA EXCEPT !.members = << FileNode(cpu_csv, Some("cpu usage, revised")) >>
                              \o Tail(DsA.members)]

CatalogLater == [QueryCatalog EXCEPT !.datasets = <<DsALater, DsB>>]

InitDrift ==
    /\ db = EmptyDb
    /\ catalog = QueryCatalog
    /\ datadir = DataDir
    /\ now = 0
    /\ pc = "idle"
    /\ opts = [catalog_exists |-> TRUE, dir_exists |-> TRUE, clear |-> FALSE]
    /\ idx = 1
    /\ runs = 0
    /\ prev = "idle"
    /\ db0 = EmptyDb
    /\ req = NoRequest
    /\ resp = NoRequest

\* Between two runs the catalog file and the data directory are replaced
Drift ==
    /\ pc \in Ended
    /\ datadir = DataDir
    /\ datadir' = DataDirLater
    /\ catalog' = CatalogLater
    /\ UNCHANGED <<db, now, pc, opts, idx, runs, prev, db0, req, resp>>

\* A Sensor row as the admin site stores it: sensor_id is unique, sensor_type
\* and compute_node reference existing rows
SensorRow ==
    [sensor_id |-> "sensor-1", sensor_type |-> "DISK_IO", compute_node |-> "area-rob",
     device_name |-> "sda", interface_name |-> "", description |-> ""]

\* Between two runs an operator adds a sensor through the admin site
AdminAddSensor ==
    /\ pc \in Ended
    /\ \E t \in db.sensor_types : t.name = SensorRow.sensor_type
    /\ \E n \in db.nodes : n.hostname = SensorRow.compute_node
    /\ ~ \E x \in db.sensors : x.sensor_id = SensorRow.sensor_id
    /\ db' = [db EXCEPT !.sensors = @ \cup {SensorRow}]
    /\ UNCHANGED <<catalog, datadir, now, pc, opts, idx, runs, prev, db0, req, resp>>

NextDrift ==
    \/ \E o \in Options, dt \in 1..TicksPerDay : Handle(o, dt)
    \/ LoadComputeNodes
    \/ LoadSensorTypes
    \/ LoadObservableProperties
    \/ LoadAgents
    \/ LoadDataset
    \/ Finish
    \/ Drift
    \/ AdminAddSensor

SpecDrift == InitDrift /\ [][NextDrift]_vars

-----------------------------------------------------------------------------
(* Requests served concurrently.  A request reads the Metadata Store first  *)
(* (the get_object_or_404 lookups) and the File Store afterwards; the steps *)
(* of different requests interleave.  Here req and resp hold one entry per  *)
(* client.                                                                  *)

\* The number of requests in flight at the same time
MaxClients == 2

Clients == 1..MaxClients

ConcurrentRequests ==
    { [view |-> "query_observations", dataset_id |-> <<"uuid-a">>,
       table_name |-> <<"c","p","u">>, params |-> p]
        : p \in { << >>, << <<col_host, val_thin>>, <<k_limit, <<"2">> >> >>,
                  << <<k_limit, <<"a","b","c">> >> >> } }
    \cup { [view |-> "query_observations", dataset_id |-> i, table_name |-> n,
            params |-> << >>]
            : i \in {<<"uuid-a">>, <<"uuid-x">>}, n \in {mem_csv, Linux_CPU_csv, net_csv} }
    \cup { [view |-> "observations_view", params |-> p]
            : p \in { << >>, << <<k_file, cpu_csv>>, <<col_value, <<"1">> >> >>,
                      << <<k_file, net_csv>> >> } }
    \cup { [view |-> "download_file", dataset_id |-> <<"uuid-a">>, filename |-> n]
            : n \in {cpu_csv, Linux_CPU_csv, net_csv} }

\* The first stage of a request, the lookups in the store (views.py lines
\* 175-181 and 125-128): the response when a lookup ends the request, else None
StoreLookup(d, r) ==
    IF r.view = "observations_view" THEN None
    ELSE IF r.view = "query_observations"
    THEN IF HasDataset(d, r.dataset_id)
            /\ HasDataFile(d, r.dataset_id, TableFile(r.table_name))
         THEN None ELSE Some(NotFound)
    ELSE IF HasDataset(d, r.dataset_id) /\ HasDataFile(d, r.dataset_id, r.filename)
         THEN None ELSE Some([status |-> 404, kind |-> "page"])

\* The second stage of a request, on the data directory (views.py lines
\* 184-262 and 131-152, rest_views.py lines 116-190)
FileStage(dir, r) ==
    IF r.view = "observations_view" THEN observations_view(dir, r.params)
    ELSE IF r.view = "query_observations"
    THEN IF ~ Exists(dir, TableFile(r.table_name)) THEN NotOnDisk(TableFile(r.table_name))
         ELSE QueryFile(dir, r.dataset_id, TableFile(r.table_name), r.params)
    ELSE IF ~ Exists(dir, r.filename) THEN [status |-> 404, kind |-> "text"]
         ELSE [status |-> 200, kind |-> "file", filename |-> r.filename,
               content |-> dir[r.filename]]

InitConcurrent ==
    /\ catalog = QueryCatalog
    /\ datadir = DataDir
    /\ db = LoadAll(EmptyDb, QueryCatalog, DataDir, 1).db
    /\ db0 = db
    /\ now = 1
    /\ pc = "done"
    /\ opts = [catalog_exists |-> TRUE, dir_exists |-> TRUE, clear |-> FALSE]
    /\ idx = Len(DatasetRows(QueryCatalog)) + 1
    /\ runs = 1
    /\ prev = "idle"
    /\ req = [c \in Clients |-> [at |-> "idle"]]
    /\ resp = [c \in Clients |-> NoRequest]

\* A request arrives at an idle worker
Arrive(c, r) ==
    /\ req[c].at = "idle"
    /\ req' = [req EXCEPT ![c] = [at |-> "lookup", request |-> r]]
    /\ UNCHANGED <<db, catalog, datadir, now, pc, opts, idx, runs, prev, db0, resp>>

\* The lookups of the request in the store
LookUp(c) ==
    /\ req[c].at = "lookup"
    /\ LET found == StoreLookup(db, req[c].request)
       IN IF found = None
          THEN /\ req' = [req EXCEPT ![c].at = "serve"]
               /\ resp' = resp
          ELSE /\ req' = [req EXCEPT ![c].at = "done"]
               /\ resp' = [resp EXCEPT ![c] = Val(found)]
    /\ UNCHANGED <<db, catalog, datadir, now, pc, opts, idx, runs, prev, db0>>

\* ServeFile with a read that removes the file it has served
ServeFileConsuming(c) ==
    /\ req[c].at = "serve"
    /\ resp' = [resp EXCEPT ![c] = FileStage(datadir, req[c].request)]
    /\ req' = [req EXCEPT ![c].at = "done"]
    /\ datadir' = [n \in DOMAIN datadir \ {cpu_csv} |-> datadir[n]]
    /\ UNCHANGED <<db, catalog, now, pc, opts, idx, runs, prev, db0>>

\* The request reads the data directory and answers
ServeFile(c) ==
    /\ req[c].at = "serve"
    /\ resp' = [resp EXCEPT ![c] = FileStage(datadir, req[c].request)]
    /\ req' = [req EXCEPT ![c].at = "done"]
    /\ UNCHANGED <<db, catalog, datadir, now, pc, opts, idx, runs, prev, db0>>

NextConcurrent ==
    \/ \E c \in Clients, r \in ConcurrentRequests : Arrive(c, r)
    \/ \E c \in Clients : LookUp(c)
    \/ \E c \in Clients : ServeFile(c)

SpecConcurrent == InitConcurrent /\ [][NextConcurrent]_vars


\* Agent.AGENT_TYPES: the values of the choices of Agent.agent_type
AGENT_TYPES == {"SOFTWARE", "PERSON", "ORGANIZATION"}

-----------------------------------------------------------------------------
(* Properties of catalog ingestion *)

\* The store without the `modified` stamps of the dataset rows
WithoutModified(d) ==
    [d EXCEPT !.datasets = {[r EXCEPT !.modified = None] : r \in @}]

\* The current run is a re-run: it started, without --clear, from the store
\* that a completed run over the same catalog and data directory left
IsRerun == prev = "done" /\ ~ opts.clear

\* C1: a second run of load_metadata without --clear over the same catalog
\* and data directory leaves every table with the rows and the field values
\* the first run left, the `modified` stamp of the dataset rows excepted.
C1_RerunChangesOnlyModified ==
    (pc = "done" /\ IsRerun) => WithoutModified(db) = WithoutModified(db0)

\* The dataset nodes of the catalog that are stored under dataset_id `id`
NodesStoredAs(id) ==
    {n \in DatasetNodes :
        /\ \E i \in 1..Len(catalog.datasets) : catalog.datasets[i] = n
        /\ n.identifier # None
        /\ DatasetId(DatasetRow(n)) = id}

\* C2: the stored license_name of a dataset is "CC BY-NC-SA 4.0" when its
\* dct:license URL contains by-nc-sa/4.0, "CC BY 4.0" when it contains
\* by/4.0, and "Unknown License" when it contains neither.
C2_LicenseNameFollowsCatalogUrl ==
    \A r \in db.datasets : \A n \in NodesStoredAs(r.dataset_id) :
        n.license # None =>
            r.license_name =
                (IF Contains(by_nc_sa_40, Val(n.license)) THEN "CC BY-NC-SA 4.0"
                 ELSE IF Contains(by_40, Val(n.license)) THEN "CC BY 4.0"
                 ELSE "Unknown License")

\* The number of lines of a file after its first (header) line
DataLines(file) == Cardinality({i \in 1..Len(Val(file.text)) : i > 1})

\* A file of the data directory that is one header line and N >= 0 data lines
HasHeader(dir, name) ==
    Exists(dir, name) /\ dir[name].text # None /\ Len(Val(dir[name].text)) >= 1

\* C3: a DataFile row created for a file that is one header line followed by
\* N data lines has row_count = N; a header-only file has row_count = 0.
C3_RowCountIsDataLines ==
    \A f \in db.files :
        HasHeader(datadir, f.filename) =>
            f.row_count = Some(DataLines(datadir[f.filename]))

C3_Witness ==
    /\ \E f \in db.files : f.filename = linux_cpu_csv /\ f.row_count = Some(0)
    /\ \E f \in db.files : f.filename = cpu_csv /\ f.row_count = Some(MaxDataLines)

IsLinuxCpuName(filename) ==
    \/ Contains(<<"l","i","n","u","x","_","c","p","u">>, Lower(filename))
    \/ Contains(<<"l","i","n","u","x","-","c","p","u">>, Lower(filename))

\* C4: a file whose lower-cased name contains linux_cpu or linux-cpu is
\* tagged LINUX_CPU, never CPU.
C4_LinuxCpuBeforeCpu ==
    \A f \in db.files :
        IsLinuxCpuName(f.filename) => f.sensor_type = Some("LINUX_CPU")

C4_Witness ==
    /\ \E f \in db.files : f.filename = linux_cpu_csv /\ f.sensor_type = Some("LINUX_CPU")
    /\ \E f \in db.files : f.filename = Linux_CPU_csv /\ f.sensor_type = Some("LINUX_CPU")
    /\ \E f \in db.files : f.filename = cpu_csv /\ f.sensor_type = Some("CPU")

\* C9: a run of load_metadata whose catalog path or data directory does not
\* exist ends with CommandError and the store as it was when the command
\* started, with or without --clear.
C9_MissingPathAbortsBeforeWrites ==
    (~ opts.catalog_exists \/ ~ opts.dir_exists) => (pc = "failed" /\ db = db0)

C9_Witness ==
    /\ pc = "failed" /\ opts.clear /\ ~ opts.dir_exists /\ opts.catalog_exists
    /\ db.datasets # {} /\ db.files # {} /\ db.sensor_types # {}

\* The dataset rows of the catalog all have a row in the store
AllDatasetsLoaded ==
    \A i \in 1..Len(DatasetRows(catalog)) :
        \E r \in db.datasets : r.dataset_id = DatasetId(DatasetRows(catalog)[i])

\* C10: a missing, malformed or unparsable date of a dataset or activity does
\* not abort the run: the run completes and every dataset of the catalog is
\* loaded.
C10_BadDateDoesNotAbort ==
    pc \in {"done", "crashed"} => (pc = "done" /\ AllDatasetsLoaded)


-----------------------------------------------------------------------------
(* Properties of the query entry points *)

\* The limit and the offset a request asks for, None when not an integer
AskedLimit == IntParam(req.params, k_limit, DefaultLimit)
AskedOffset == IntParam(req.params, k_offset, 0)

\* C5: in query_observations a requested limit above 10000 is applied and
\* echoed as 10000 (100 when absent, offset 0 when absent), and a request
\* whose offset is at least the number of rows matching the filters gets zero
\* records and no next link.
C5_ClampAndPastTheEnd ==
    (req.view = "query_observations" /\ resp.kind = "json") =>
        /\ resp.limit = Min(Val(AskedLimit), MaxLimit)
        /\ resp.offset = Val(AskedOffset)
        /\ Len(resp.data) <= MaxLimit
        /\ resp.offset >= resp.total_rows => (resp.data = << >> /\ resp.next = None)

\* The rows of a frame that satisfy every filter of a query string, a filter
\* being satisfied when the cell contains the value as a substring, case
\* ignored
SubstringRows(df, params) ==
    SelectSeq(df.rows, LAMBDA row :
        \A i \in 1..Len(params) :
            LET key == params[i][1]
                c == ColumnOf(df, key)
            IN (key \notin {k_limit, k_offset, k_format} /\ c # 0)
                   => Contains(Lower(params[i][2]), Lower(CellStr(df, c, row))))

\* C6: in query_observations the filtered rows are exactly the rows that
\* satisfy all filters, a filter being a parameter outside limit, offset and
\* format that names a column, satisfied when the cell's string form contains
\* the value as a case-insensitive substring; other parameters are ignored.
C6_FilterIsSubstringConjunction ==
    (req.view = "query_observations" /\ resp.status = 200) =>
        LET df == Val(ReadCsv(datadir[TableFile(req.table_name)]))
            want == SubstringRows(df, req.params)
            from == Val(AskedOffset)
            upto == from + Min(Val(AskedLimit), MaxLimit)
        IN /\ resp.data = Records(df, PySlice(want, from, upto))
           /\ resp.kind = "json" => resp.total_rows = Len(want)

\* The file a request names
RequestedFile ==
    IF req.view = "query_observations" THEN TableFile(req.table_name) ELSE req.filename

\* C7: query_observations and download_file answer not-found, with no content
\* of the file, whenever no DataFile row pairs the requested dataset with the
\* requested file, even if the file is on disk and belongs to another dataset.
C7_UnassociatedFileNotFound ==
    (/\ req.view \in {"query_observations", "download_file"}
     /\ ~ \E f \in db.files :
            f.dataset = req.dataset_id /\ f.filename = RequestedFile) =>
        /\ resp.status = 404
        /\ "data" \notin DOMAIN resp
        /\ "content" \notin DOMAIN resp

\* A request for Linux-CPU.csv, on disk and registered under uuid-b, made
\* under the existing dataset uuid-a, was answered
C7_Witness ==
    /\ req.view \in {"query_observations", "download_file"}
    /\ req.dataset_id = <<"uuid-a">>
    /\ \E r \in db.datasets : r.dataset_id = <<"uuid-a">>
    /\ RequestedFile = Linux_CPU_csv
    /\ Exists(datadir, Linux_CPU_csv)
    /\ \E f \in db.files : f.dataset = <<"uuid-b">> /\ f.filename = Linux_CPU_csv
    /\ resp.status = 404

\* C8: every failing request to query_observations or observations_view ends
\* in a structured error body with status 400, 404 or 500, never in an
\* exception that leaves the view.
C8_FailuresAreStructured ==
    (req.view \in {"query_observations", "observations_view"} /\ resp.status # 200) =>
        /\ resp.kind = "error"
        /\ resp.status \in {400, 404, 500}
        /\ "error" \in DOMAIN resp


\* The file a query request reads
QueriedFile ==
    IF req.view = "query_observations" THEN TableFile(req.table_name)
    ELSE Val(ParamGet(req.params, k_file))

\* The frame of the file a query request reads
QueriedFrame ==
    Val(ReadCsv(IF req.view = "query_observations" THEN datadir[QueriedFile]
                ELSE Disk(datadir)[FilePath(QueriedFile)]))

\* A row of the queried frame passes every filter of the request, each filter
\* taken as its entry point takes it
RowPasses(row) ==
    LET df == QueriedFrame
    IN \A i \in 1..Len(req.params) :
        LET key == req.params[i][1]
            value == req.params[i][2]
            c == ColumnOf(df, key)
        IN IF req.view = "query_observations"
           THEN (key \notin {k_limit, k_offset, k_format} /\ c # 0)
                    => StrContains(CellStr(df, c, row), value)
           ELSE (key \notin {k_file, k_limit, k_offset, k_format} /\ value # << >> /\ c # 0)
                    => IF df.numeric[c]
                       THEN ParseInt(value) # None
                                => DigitsVal(row[c]) = Val(ParseInt(value))
                       ELSE StrContains(CellStr(df, c, row), value)

\* The filtered rows of the queried file, in file order
RowsPassing == SelectSeq(QueriedFrame.rows, RowPasses)

\* The total, the count and the records a JSON response reports
RespTotal == IF req.view = "query_observations" THEN resp.total_rows ELSE resp.total_matching
RespCount == IF req.view = "query_observations" THEN resp.returned_rows ELSE resp.count
RespRecords == IF req.view = "query_observations" THEN resp.data ELSE resp.observations

IsJsonPage ==
    /\ req.view \in {"query_observations", "observations_view"}
    /\ resp.status = 200 /\ resp.kind = "json"

\* C11: in both query entry points the reported total is the number of rows
\* matching the filters before pagination, and for non-negative offset and
\* limit the records are the filtered rows at positions offset ..
\* offset+limit-1 in file order, so the count is min(limit, max(0, total - offset)).
C11_PaginationAfterFilters ==
    IsJsonPage =>
        /\ RespTotal = Len(RowsPassing)
        /\ (resp.limit >= 0 /\ resp.offset >= 0) =>
              /\ RespRecords =
                    Records(QueriedFrame,
                            SubSeq(RowsPassing, resp.offset + 1,
                                   Min(resp.offset + resp.limit, Len(RowsPassing))))
              /\ RespCount = Min(resp.limit, Max(0, RespTotal - resp.offset))
              /\ RespCount = Len(RespRecords)

\* A filter left some but not all rows, and a window inside them was served
C11_Witness ==
    /\ IsJsonPage
    /\ RespTotal < Len(QueriedFrame.rows)
    /\ resp.offset = 1 /\ resp.limit = 2 /\ RespCount = 2
    /\ RespTotal >= 3


\* The limit a request is served with
ServedLimit == Min(Val(AskedLimit), MaxLimit)

\* C12: in the JSON response of query_observations links.next is present
\* exactly when offset + limit < total matching rows and points to offset +
\* limit; links.prev is present exactly when offset > 0 and points to
\* max(0, offset - limit), never to a negative offset.
C12_NextAndPrevLinks ==
    (req.view = "query_observations" /\ resp.kind = "json") =>
        LET offset == Val(AskedOffset)
            limit == ServedLimit
            total == Len(RowsPassing)
        IN /\ (resp.next # None) <=> (offset + limit < total)
           /\ resp.next # None => Val(resp.next) = [limit |-> limit, offset |-> offset + limit]
           /\ (resp.prev # None) <=> (offset > 0)
           /\ resp.prev # None =>
                 /\ Val(resp.prev) = [limit |-> limit, offset |-> Max(0, offset - limit)]
                 /\ Val(resp.prev).offset >= 0

\* A page in the middle of the rows: a next link, and a prev link floored at 0
C12_Witness ==
    /\ req.view = "query_observations" /\ resp.kind = "json"
    /\ Val(AskedOffset) = 1 /\ ServedLimit = 2
    /\ resp.next = Some([limit |-> 2, offset |-> 3])
    /\ resp.prev = Some([limit |-> 2, offset |-> 0])


\* The dataset of a request exists; a DataFile row pairs it with the file
RequestedDatasetExists == \E r \in db.datasets : r.dataset_id = req.dataset_id
RequestedFileRegistered ==
    \E f \in db.files : f.dataset = req.dataset_id /\ f.filename = RequestedFile

\* C13: query_observations stops at the first failing check of: the dataset
\* exists (else not-found); a DataFile row for (dataset, table name with .csv
\* appended when missing) exists (else not-found); the file is in the data
\* directory (else a structured 404 naming the file).  Before all three pass
\* the file is not read and limit and offset are not converted.
C13_ValidationOrder ==
    req.view = "query_observations" =>
        /\ ~ RequestedDatasetExists
              => (resp.status = 404 /\ resp.kind = "error" /\ "filename" \notin DOMAIN resp)
        /\ (RequestedDatasetExists /\ ~ RequestedFileRegistered)
              => (resp.status = 404 /\ resp.kind = "error" /\ "filename" \notin DOMAIN resp)
        /\ (RequestedDatasetExists /\ RequestedFileRegistered
                /\ RequestedFile \notin DOMAIN datadir)
              => (/\ resp.status = 404 /\ resp.kind = "error"
                  /\ "filename" \in DOMAIN resp /\ resp.filename = RequestedFile)
        /\ (resp.kind = "unhandled" \/ resp.status \in {200, 500})
              => (/\ RequestedDatasetExists /\ RequestedFileRegistered
                  /\ RequestedFile \in DOMAIN datadir)

\* A registered file that is not on disk, asked for with a limit that is no
\* integer and a table name without .csv, was answered with the 404 naming it
C13_Witness ==
    /\ req.view = "query_observations"
    /\ req.table_name = <<"n","e","t">> /\ RequestedFile = net_csv
    /\ RequestedDatasetExists /\ RequestedFileRegistered
    /\ net_csv \notin DOMAIN datadir
    /\ AskedLimit = None
    /\ resp.status = 404 /\ resp.filename = net_csv


\* A row of the queried frame satisfies every filter of the request, a filter
\* on a text column being case-insensitive substring containment in both
\* entry points, a filter on a numeric column being numeric equality in
\* observations_view (no filter when the value is no number) and substring
\* containment in the cell's string form in query_observations
RowSatisfies(row) ==
    LET df == QueriedFrame
    IN \A i \in 1..Len(req.params) :
        LET key == req.params[i][1]
            value == req.params[i][2]
            c == ColumnOf(df, key)
            cell == CellStr(df, c, row)
            is_filter == /\ key \notin {k_file, k_limit, k_offset, k_format}
                         /\ value # << >>
                         /\ c # 0
        IN is_filter =>
              IF df.numeric[c] /\ req.view = "observations_view"
              THEN IsDigits(value) => DigitsVal(row[c]) = DigitsVal(value)
              ELSE Contains(Lower(value), Lower(cell))

RowsSatisfying == SelectSeq(QueriedFrame.rows, RowSatisfies)

\* C14: on a numeric column observations_view keeps the rows numerically
\* equal to the value (all rows when the value is no number) and
\* query_observations keeps the rows whose string form contains the value;
\* on a text column both keep the rows that contain the value as a
\* case-insensitive substring.
C14_NumericEqualityVersusSubstring ==
    IsJsonPage =>
        /\ RespTotal = Len(RowsSatisfying)
        /\ RespRecords =
              Records(QueriedFrame,
                      PySlice(RowsSatisfying, resp.offset, resp.offset + resp.limit))


\* The `file` parameter of a request to observations_view, None when absent
AskedFile == ParamGet(req.params, k_file)

\* C15: observations_view answers 400, with a body that hints at example file
\* names, whenever the `file` parameter is absent or empty, whatever the
\* other parameters are, and answers 404 when the named file is not in the
\* data directory.
C15_MissingFileIsClientError ==
    req.view = "observations_view" =>
        /\ (AskedFile = None \/ AskedFile = Some(<< >>))
              => (resp.status = 400 /\ resp.kind = "error")
        /\ (AskedFile # None /\ AskedFile # Some(<< >>)
                /\ Val(AskedFile) \notin DOMAIN datadir)
              => (resp.status = 404 /\ resp.kind = "error")


-----------------------------------------------------------------------------
(* Further properties of catalog ingestion *)

\* The final segment of a URI: after `#` if present, else after the last `/`
FinalSegment(uri) ==
    IF \E i \in 1..Len(uri) : uri[i] = "#" THEN SplitLast(uri, "#")
    ELSE SplitLast(uri, "/")

\* The dataset_id the catalog gives a dataset node
ExpectedDatasetId(n) ==
    IF n.identifier # None THEN Val(n.identifier) ELSE FinalSegment(n.uri)

\* C16: every dataset is keyed on its dct:identifier literal, and a
\* dcat:Dataset node without dct:identifier is still ingested, under the final
\* segment of its URI.
C16_DatasetWithoutIdentifierIsIngested ==
    pc = "done" =>
        \A i \in 1..Len(catalog.datasets) :
            \E r \in db.datasets : r.dataset_id = ExpectedDatasetId(catalog.datasets[i])


\* The current run was started without --clear on existing paths
IsPlainRun == runs > 0 /\ ~ opts.clear /\ opts.catalog_exists /\ opts.dir_exists

\* C17: a run never changes a DataFile row that existed when it started, even
\* if the file on disk or its catalog description changed since; there is at
\* most one DataFile row per (dataset, filename) after any number of runs.
C17_ExistingFileRowsAreKept ==
    /\ IsPlainRun => db0.files \subseteq db.files
    /\ \A f, h \in db.files :
          (f.dataset = h.dataset /\ f.filename = h.filename) => f = h

\* A second run ended over a changed directory and catalog, and the row of
\* cpu.csv still holds the size, the count and the description of the first
C17_Witness ==
    /\ pc = "done" /\ prev = "done" /\ IsPlainRun
    /\ datadir = DataDirLater /\ catalog = CatalogLater
    /\ \E f \in db.files :
          /\ f.dataset = <<"uuid-a">> /\ f.filename = cpu_csv
          /\ f \in db0.files
          /\ f.row_count = Some(MaxDataLines)
          /\ f.row_count # RowCount(datadir, cpu_csv)
          /\ f.file_size # FileSize(datadir, cpu_csv)
          /\ f.description = "cpu usage"
    /\ \E f \in db.files : f.filename = net_csv /\ f.row_count = None


\* The dataset row of the store `d` with dataset_id `id`, if any
DatasetRowsWithId(d, id) == {r \in d.datasets : r.dataset_id = id}

\* C18: `issued` is stamped by the store when a dataset row is created and is
\* not set by ingestion: a run leaves the `issued` of every row that existed
\* when it started as it was, and a row it creates carries the day of the run
\* whatever the catalog's dct:issued is.
C18_IssuedIsStampedOnceByTheStore ==
    IsPlainRun =>
        \A r \in db.datasets :
            IF DatasetRowsWithId(db0, r.dataset_id) # {}
            THEN \A r0 \in DatasetRowsWithId(db0, r.dataset_id) : r.issued = r0.issued
            ELSE r.issued = Some(DayOf(now))


\* The current run was started with --clear on existing paths
IsClearRun == runs > 0 /\ opts.clear /\ opts.catalog_exists /\ opts.dir_exists

\* C19: with --clear the rows of all eight entities are deleted, in the order
\* activities, files, datasets, sensors, properties, sensor types, agents,
\* nodes; no delete fails on a protected reference (Sensor -> SensorType,
\* DataFile -> SensorType) whatever the store holds, and all tables are empty
\* when the first load step starts.
C19_ClearNeverHitsProtectedRows ==
    IsClearRun =>
        /\ pc # "protected"
        /\ pc = "load_compute_nodes" => db = EmptyDb

\* A run with --clear has emptied a store that held rows of all eight
\* entities, sensors and files with a sensor type among them
C19_Witness ==
    /\ IsClearRun /\ pc = "load_compute_nodes" /\ db = EmptyDb
    /\ db0.activities # {} /\ db0.datasets # {} /\ db0.properties # {}
    /\ db0.agents # {} /\ db0.nodes # {}
    /\ \E t \in db0.sensor_types :
          /\ \E x \in db0.sensors : x.sensor_type = t.name
    /\ \E t \in db0.sensor_types :
          /\ \E f \in db0.files : f.sensor_type = Some(t.name)


-----------------------------------------------------------------------------
(* Properties of concurrent requests *)

\* The response to a request served alone on the store d and the directory dir
AloneResponse(d, dir, r) ==
    IF r.view = "query_observations"
    THEN query_observations(d, dir, r.dataset_id, r.table_name, r.params)
    ELSE IF r.view = "observations_view" THEN observations_view(dir, r.params)
    ELSE download_file(d, dir, r.dataset_id, r.filename)

\* C20: query_observations, observations_view and download_file are
\* read-only: whatever requests are in flight, answered or failed, the rows of
\* the store and the files of the data directory are as they were, and every
\* request gets the response it gets when it runs alone.
C20_RequestsAreReadOnly ==
    /\ db = db0
    /\ datadir = DataDir
    /\ \A c \in Clients :
          req[c].at = "done" => resp[c] = AloneResponse(db0, DataDir, req[c].request)

\* One request on cpu.csv was answered in full while another request on the
\* same file was between its lookups and its read, and a third kind failed
C20_Witness ==
    \E c, e \in Clients :
        /\ c # e
        /\ req[c].at = "serve" /\ req[c].request.view = "query_observations"
        /\ TableFile(req[c].request.table_name) = cpu_csv
        /\ req[e].at = "done" /\ req[e].request.view = "download_file"
        /\ req[e].request.filename = cpu_csv
        /\ resp[e].status = 200


-----------------------------------------------------------------------------
(* Properties of the entities derived from the graph *)

\* load_agents of the current run is over
AgentsLoaded == runs > 0 /\ pc \in {"load_datasets", "done", "crashed"}

\* C21: load_agents stores one Agent row for every catalog node typed
\* prov:Agent that has a foaf:name, a node whose only rdf:type is prov:Agent
\* included, and its agent_type is "software" whatever other type it carries.
C21_EveryNamedAgentIsStored ==
    AgentsLoaded =>
        \A i \in 1..Len(catalog.agents) :
            LET n == catalog.agents[i]
                rows == {a \in db.agents : a.agent_id = SplitLast(n.uri, "/")}
            IN n.name # None =>
                  /\ Cardinality(rows) = 1
                  /\ \A a \in rows : a.agent_type = "software"


\* C22: the lookup URI of load_activity_agents is the catalog URI of the
\* activity it was built for, so every agent the catalog associates with a
\* stored activity through prov:wasAssociatedWith, and that has an Agent row,
\* is linked to the activity; associated agents without a row are skipped.
C22_AssociatedAgentsAreLinked ==
    pc = "done" =>
        \A i \in 1..Len(catalog.activities) :
            LET n == catalog.activities[i]
                activity_id == SplitLast(n.uri, "/")
            IN (\E r \in db.activities : r.activity_id = activity_id) =>
                  /\ DCM \o activity_id = n.uri
                  /\ \A p \in catalog.assoc :
                        (/\ p[1] = n.uri
                         /\ \E a \in db.agents : a.agent_id = SplitLast(p[2], "/"))
                            => <<activity_id, SplitLast(p[2], "/")>> \in db.activity_agents


\* The activity rows of store d with the given activity_id
ActivityRowsWithId(d, id) == {r \in d.activities : r.activity_id = id}

\* What one step may do to the DataCollectionActivity table
ActivityStep ==
    /\ \A r1, r2 \in db'.activities :
          r1.activity_id = r2.activity_id => r1 = r2
    /\ \A r \in db'.activities \ db.activities :
          /\ pc = "load_datasets"
          /\ idx <= Len(DatasetRows(catalog))
          /\ r.dataset = DatasetId(DatasetRows(catalog)[idx])
    /\ ~ (pc \in Ended /\ opts'.clear) => db.activities \subseteq db'.activities
    /\ (pc' = "done" /\ Len(DatasetRows(catalog)) > 0) =>
          \A i \in 1..Len(ActivityRows(catalog)) :
              Cardinality(ActivityRowsWithId(
                  db', SplitLast(ActivityRows(catalog)[i].uri, "/"))) = 1

\* C23: load_activities runs once per dataset over every prov:Activity of the
\* catalog, and still a finished run over at least one dataset leaves exactly
\* one activity row per activity_id; a row is created with the dataset being processed at that
\* moment, and no later dataset and no later run without --clear duplicates
\* it, replaces it or moves it to another dataset.
C23_OneActivityRowPerId == [][ActivityStep]_vars

\* A second run without --clear has gone through two datasets and the
\* activity still is the one row the first run created for the first dataset
C23_Witness ==
    /\ pc = "done" /\ runs = 2 /\ prev = "done" /\ ~ opts.clear
    /\ Len(DatasetRows(catalog)) = 2
    /\ DatasetId(DatasetRows(catalog)[1]) # DatasetId(DatasetRows(catalog)[2])
    /\ db.activities # {}
    /\ db.activities = db0.activities
    /\ \A r \in db.activities : r.dataset = DatasetId(DatasetRows(catalog)[1])


\* The observable properties have been loaded in the current run
PropertiesLoaded ==
    runs > 0 /\ pc \in {"load_agents", "load_datasets", "done", "crashed"}

\* The keywords of the four buckets, in the stated order
BucketKeywords ==
    << [type |-> "CPU",     words |-> {<<"c","p","u">>, <<"p","r","o","c","e","s","s","o","r">>}],
       [type |-> "MEMORY",  words |-> {<<"m","e","m","o","r","y">>, <<"m","e","m">>}],
       [type |-> "DISK_IO", words |-> {<<"d","i","s","k">>, <<"i","o">>}],
       [type |-> "NETWORK", words |-> {<<"n","e","t","w","o","r","k">>, <<"n","e","t">>}] >>

\* The buckets whose keywords occur in the lowercased label
BucketsMatching(label) ==
    {k \in 1..Len(BucketKeywords) :
        \E w \in BucketKeywords[k].words : Contains(w, Lower(label))}

\* The stored properties that came from the catalog node n
PropertyRowsOf(n) ==
    {r \in db.properties : r.property_name = SplitLast(n.uri, "/")}

\* C24: a property is put in the first of the buckets CPU, MEMORY, DISK_IO,
\* NETWORK one of whose keywords occurs in its lowercased label; a property
\* that matches none is not stored; a stored property whose catalog entry
\* carries no unit label has the unit "dimensionless".
C24_PropertyBucketsAndDefaultUnit ==
    PropertiesLoaded =>
        \A i \in 1..Len(catalog.props) :
            LET n == catalog.props[i]
                buckets == BucketsMatching(n.name)
                first == CHOOSE k \in buckets : \A j \in buckets : k <= j
            IN IF buckets = {} THEN PropertyRowsOf(n) = {}
               ELSE /\ Cardinality(PropertyRowsOf(n)) = 1
                    /\ \A r \in PropertyRowsOf(n) :
                          /\ r.sensor_type = BucketKeywords[first].type
                          /\ (n.unit = None \/ n.unitLabel = None)
                                => r.unit = <<"dimensionless">>


\* C25: the agent_type of every stored Agent row is one of the declared
\* choices SOFTWARE, PERSON, ORGANIZATION.
C25_AgentTypeIsADeclaredChoice ==
    \A a \in db.agents : a.agent_type \in AGENT_TYPES


\* C26: the row_count of a stored data file is never negative, the file with
\* zero lines included; row_count and file_size are both null when the file
\* was not on disk and both set when it was.
C26_RowCountNeverNegative ==
    \A f \in db.files :
        /\ f.row_count # None => Val(f.row_count) >= 0
        /\ f.row_count = None <=> ~ Exists(datadir, f.filename)
        /\ f.file_size = None <=> ~ Exists(datadir, f.filename)


\* The tables filled from the graph
GraphTables == {"properties", "agents", "datasets", "files", "activities"}

\* Both compute nodes and the eleven sensor types are rows of store d
Seeded(d) ==
    /\ \A i \in 1..Len(NodesData) :
          \E n \in d.nodes : n.hostname = NodesData[i].hostname
    /\ \A i \in 1..Len(SensorTypeNames) :
          SensorTypeNamed(d, SensorTypeNames[i]) # None

\* What one step may do with respect to the two seed steps
SeedStep ==
    /\ (\E t \in GraphTables : ~ (db'[t] \subseteq db[t])) => Seeded(db)
    /\ pc \in {"load_compute_nodes", "load_sensor_types"} =>
          /\ db.nodes \subseteq db'.nodes
          /\ db.sensor_types \subseteq db'.sensor_types
          /\ \A t \in GraphTables : db'[t] = db[t]
    /\ pc' \in {"load_observable_properties", "load_agents", "load_datasets"} =>
          Seeded(db')

\* C27: in every run, with --clear or without, the compute nodes and the
\* eleven sensor types are in the store before any entity derived from the
\* graph is written, so that every lookup of a sensor type by name made while
\* properties and files are loaded finds its row; the two seed steps leave
\* the node and sensor type rows that exist unchanged and touch no other table.
C27_SeedBeforeGraphEntities == [][SeedStep]_vars

\* A run with --clear over a filled store has deleted everything and
\* seeded again, and nothing derived from the graph is written yet
C27_Witness ==
    /\ runs = 2 /\ opts.clear /\ pc = "load_observable_properties"
    /\ db0.datasets # {} /\ db0.sensor_types # {}
    /\ \A t \in GraphTables : db[t] = {}
    /\ Seeded(db)
    /\ Cardinality(db.sensor_types) = 11


RECURSIVE FollowNext(_, _)
\* The pages a client gets that asks query_observations for `params` and
\* then follows links.next, at most `more` times: whether it came to a page
\* without next link, and the records of the pages in the order received
FollowNext(params, more) ==
    LET page == query_observations(db, datadir, req.dataset_id, req.table_name, params)
    IN IF page.kind # "json" THEN [ended |-> FALSE, data |-> << >>]
       ELSE IF page.next = None THEN [ended |-> TRUE, data |-> page.data]
       ELSE IF more = 0 THEN [ended |-> FALSE, data |-> page.data]
       ELSE LET rest == FollowNext(LinkParams(Val(page.next)), more - 1)
            IN [ended |-> rest.ended, data |-> page.data \o rest.data]

\* C28: whatever limit query_observations accepts, limit = 0 included, a
\* client that follows links.next from a request comes to a page whose next
\* link is None (within as many steps as there are rows, and two more), and
\* when it started at offset 0 the pages it received hold every filtered row
\* exactly once, in file order.
C28_NextLinksEndAndCoverTheRows ==
    (req.view = "query_observations" /\ resp.status = 200 /\ resp.kind = "json") =>
        LET walk == FollowNext(req.params, Len(QueriedFrame.rows) + 2)
        IN /\ walk.ended
           /\ Val(AskedOffset) = 0 => walk.data = Records(QueriedFrame, RowsPassing)


\* C29: in a page of query_observations or observations_view, whatever
\* integer limit and offset the request gave (zero and negative included),
\* the number of records is at most the echoed limit and at most 10000, and
\* the records are the filtered rows at positions offset, offset + 1, ... in
\* file order.
C29_PageWithinLimitFromOffset ==
    IsJsonPage =>
        /\ RespCount = Len(RespRecords)
        /\ RespCount <= resp.limit
        /\ RespCount <= MaxLimit
        /\ \/ RespCount = 0
           \/ /\ resp.offset >= 0
              /\ resp.offset + RespCount <= Len(RowsPassing)
              /\ RespRecords =
                    Records(QueriedFrame,
                            SubSeq(RowsPassing, resp.offset + 1, resp.offset + RespCount))


\* A path names a file directly inside the data directory
InsideDataDirectory(path) ==
    /\ Len(path) = Len(DATASETS_PATH) + 1
    /\ SubSeq(path, 1, Len(DATASETS_PATH)) = DATASETS_PATH

\* C30: observations_view only checks and reads a file directly inside the
\* data directory: whatever the `file` parameter holds, `..` segments or an
\* absolute path included, the path resolves inside the data directory or the
\* answer is not-found.
C30_ReadsOnlyInsideTheDataDirectory ==
    (/\ req.view = "observations_view"
     /\ AskedFile \notin {None, Some(<< >>)}
     /\ resp.kind # "unhandled") =>
        \/ InsideDataDirectory(FilePath(Val(AskedFile)))
        \/ resp.status = 404

====
